---- MODULE Spec2Model ----
(***************************************************************************)
(* Appointment service: the appointment store (models/appointment.js), the *)
(* request handlers of the appointment controller, the authenticate        *)
(* middleware in front of them and the collaborator clients they call.     *)
(*                                                                         *)
(* Every handler is an async function: it runs atomically up to each await *)
(* that reaches the store, and other requests interleave at those awaits.  *)
(* A request occupies a slot; its position is req[s].pc.                   *)
(*                                                                         *)
(* Dates are minutes since 2025-01-01T00:00 (UTC, no daylight saving).     *)
(*                                                                         *)
(* The specifications share the actions and differ in their inputs:        *)
(*   Spec          every role and two patients, requests in flight together*)
(*   SpecSchedule  one doctor's calendar, requests in flight together      *)
(*   SpecSerial    one doctor's calendar, one request at a time            *)
(*   SpecServices  the collaborators in every mood, one request at a time  *)
(*   SpecRecurrence  generateRecurringAppointments over a range of inputs  *)
(*   SpecLoop      the while loop of generateRecurringAppointments, one    *)
(*                 iteration at a time, run to its end (weak fairness)     *)
(*   SpecConflict  pre('save') of a create against one stored appointment  *)
(*   SpecClock     a patient's appointments while the time passes them,    *)
(*                 with requests that carry no valid token among the rest  *)
(* The clock, now, stands still at 0 in every specification but SpecClock. *)
(* The controller is the one of unnamed/part_009.  The repository holds two*)
(* revisions of the validation module, and validation says which one is    *)
(* deployed: the one with a recurrence rule, which part_009 reads, or the  *)
(* earlier one of unnamed/part_008, whose create has no recurrence (the    *)
(* create of controllers/appointment.controller.js saves the one base      *)
(* appointment) and whose update accepts a status.  For the admin, the only*)
(* actor of the specifications that deploy it, the handlers of the two     *)
(* revisions of the controller read and write the store alike.             *)
(***************************************************************************)
EXTENDS Integers, Sequences, FiniteSets, TLC

VARIABLES
    appointments,   \* the Appointment collection; a document's position is its _id
    req,            \* the requests in flight, one per slot
    validation,     \* which of the repository's two validation modules is deployed
    now             \* the clock (new Date()), in minutes

vars == <<appointments, req, validation, now>>

----------------------------------------------------------------------------
\* Bounds of the model

\* Spec: requests in flight at a time, and documents in the collection
NumSlots == 2
MaxAppts == 2

\* SpecSchedule and SpecSerial
ScheduleSlots == 2
SerialSlots == 1
ScheduleMaxAppts == 2

\* SpecServices
ServiceSlots == 1
ServiceMaxAppts == 2

\* SpecRecurrence: the largest interval of a recurrence
MaxInterval == 3

\* SpecLoop: the instances a run of the loop may push (above the longest
\* series of the inputs, 8 instances)
MaxInstances == 10

\* SpecClock
ClockSlots == 1
ClockMaxAppts == 2

\* SpecConflict: starts of the existing appointment are taken every Grid
\* minutes from Reach minutes before the proposed start to Reach minutes after
Grid == 5
Reach == 240

----------------------------------------------------------------------------
\* Values

\* Users known to the user service (GET /api/users/:id); phoneNumber: the
\* user has one
Users ==
    [ p1 |-> [id |-> "p1", role |-> "patient", kycVerified |-> FALSE, phoneNumber |-> TRUE],
      p2 |-> [id |-> "p2", role |-> "patient", kycVerified |-> FALSE, phoneNumber |-> FALSE],
      d1 |-> [id |-> "d1", role |-> "doctor",  kycVerified |-> TRUE,  phoneNumber |-> FALSE],
      d2 |-> [id |-> "d2", role |-> "doctor",  kycVerified |-> TRUE,  phoneNumber |-> FALSE],
      d3 |-> [id |-> "d3", role |-> "doctor",  kycVerified |-> FALSE, phoneNumber |-> FALSE],
      a1 |-> [id |-> "a1", role |-> "admin",   kycVerified |-> FALSE, phoneNumber |-> FALSE] ]

UserIds == DOMAIN Users

MinutesPerDay == 1440
BaseYear == 2025

\* A statusCode slot of an error holds a number or, after authenticate has
\* rebuilt the error from err.status, the string 'fail' / 'error'.  The two
\* strings are encoded below zero; IsInteger tells them from numbers.
StrFail == -1
StrError == -2
IsInteger(v) == v >= 0

\* The statusCode of an error that has none (err.statusCode is undefined)
NoStatusCode == -3

NoDoc == [appointmentId |-> 0]
\* a date that is null
NoDate == -1
\* the consent of a body that names none: the validation's default
NoConsent == [given |-> FALSE, purpose |-> "treatment"]
NoUser == [id |-> "none", role |-> "none"]

----------------------------------------------------------------------------
\* utils/error.js

NoDetails == [none |-> TRUE]

CustomError(message, statusCode, details) ==
    [ message    |-> message,
      statusCode |-> statusCode,
      status     |-> IF IsInteger(statusCode) /\ statusCode >= 400 /\ statusCode < 500
                     THEN StrFail ELSE StrError,
      details    |-> details ]

----------------------------------------------------------------------------
\* midlewares/authenticate.js

\* A request's Authorization header: absent (kind "missing"), a token signed
\* for another service key ("badkey"), or a token with the service key ("ok");
\* sub and role are the token's claims ("none": the claim is absent).
Token(kind, sub, role) == [kind |-> kind, sub |-> sub, role |-> role]

\* What the try block throws, or "none"
authenticateThrown(requiredRoles, token) ==
    LET user == [ id   |-> IF token.sub = "none" THEN "system" ELSE token.sub,
                  role |-> IF token.role = "none" THEN "system" ELSE token.role ]
    IN  IF token.kind = "missing"
        THEN [thrown |-> TRUE, err |-> CustomError("Authentication token missing", 401, NoDetails),
              user |-> NoUser]
        ELSE IF token.kind = "badkey"
        THEN [thrown |-> TRUE, err |-> CustomError("Invalid service key", 403, NoDetails),
              user |-> NoUser]
        ELSE IF requiredRoles # {} /\ user.role \notin requiredRoles
        THEN [thrown |-> TRUE, err |-> CustomError("Access user: role not authorized", 403,
                                           NoDetails),
              user |-> user]
        ELSE [thrown |-> FALSE, err |-> CustomError("", 0, NoDetails), user |-> user]

\* authenticate(requiredRoles)(req, res, next): the error handed to next, or
\* ok with req.user set.  The catch block rebuilds the error with
\* err.status || 401, and err.status of a CustomError is 'fail' or 'error'.
authenticate(requiredRoles, token) ==
    LET t == authenticateThrown(requiredRoles, token)
    IN  IF t.thrown
        THEN [ok |-> FALSE, user |-> t.user,
              err |-> CustomError(t.err.message, t.err.status, NoDetails)]
        ELSE [ok |-> TRUE, user |-> t.user, err |-> t.err]

CreateRoles == {"patient", "admin"}
ReadRoles == {"patient", "doctor", "admin"}
WriteRoles == {"patient", "admin"}

----------------------------------------------------------------------------
\* Calendar arithmetic of the JavaScript Date (getDate/setDate, getMonth/setMonth)

IsLeap(y) == (y % 4 = 0 /\ y % 100 # 0) \/ y % 400 = 0

\* m is a JavaScript month, 0..11
DaysInMonth(y, m) ==
    IF m = 1 THEN (IF IsLeap(y) THEN 29 ELSE 28)
    ELSE IF m \in {3, 5, 8, 10} THEN 30 ELSE 31

DaysInYear(y) == IF IsLeap(y) THEN 366 ELSE 365

RECURSIVE DaysBeforeYear(_)
DaysBeforeYear(y) ==
    IF y <= BaseYear THEN 0 ELSE DaysBeforeYear(y - 1) + DaysInYear(y - 1)

RECURSIVE DaysBeforeMonth(_, _)
DaysBeforeMonth(y, m) ==
    IF m <= 0 THEN 0 ELSE DaysBeforeMonth(y, m - 1) + DaysInMonth(y, m - 1)

RECURSIVE YearOfDay(_, _)
YearOfDay(day, y) ==
    IF day < DaysBeforeYear(y + 1) THEN y ELSE YearOfDay(day, y + 1)

RECURSIVE MonthOfDay(_, _, _)
MonthOfDay(dayOfYear, y, m) ==
    IF dayOfYear < DaysBeforeMonth(y, m + 1) THEN m ELSE MonthOfDay(dayOfYear, y, m + 1)

getFullYear(date) == YearOfDay(date \div MinutesPerDay, BaseYear)

getMonth(date) ==
    LET y == getFullYear(date)
    IN  MonthOfDay((date \div MinutesPerDay) - DaysBeforeYear(y), y, 0)

getDate(date) ==
    LET y == getFullYear(date)
        m == getMonth(date)
    IN  (date \div MinutesPerDay) - DaysBeforeYear(y) - DaysBeforeMonth(y, m) + 1

\* new Date(y, m, d) at the time of day tod: m >= 12 carries into the year and
\* a day past the end of the month carries into the following month
MakeDate(y, m, d, tod) ==
    LET yy == y + (m \div 12)
        mm == m % 12
    IN  (DaysBeforeYear(yy) + DaysBeforeMonth(yy, mm) + (d - 1)) * MinutesPerDay + tod

setDate(date, d) ==
    MakeDate(getFullYear(date), getMonth(date), d, date % MinutesPerDay)

setMonth(date, m) ==
    MakeDate(getFullYear(date), m, getDate(date), date % MinutesPerDay)

----------------------------------------------------------------------------
\* controllers/appointment.controller.js: generateRecurringAppointments

NoRecurrence == [type |-> "null", interval |-> 0, endDate |-> 0]

\* Variant of StepDate that sets the day of the month, or the month, it
\* already has
StepDateInPlace(currentDate, type, interval) ==
    IF type \in {"daily", "weekly"} THEN setDate(currentDate, getDate(currentDate))
    ELSE IF type = "monthly" THEN setMonth(currentDate, getMonth(currentDate))
    ELSE currentDate

\* Variant of StepDate whose weekly step is interval days
StepDateByDays(currentDate, type, interval) ==
    IF type \in {"daily", "weekly"} THEN setDate(currentDate, getDate(currentDate) + interval)
    ELSE IF type = "monthly" THEN setMonth(currentDate, getMonth(currentDate) + interval)
    ELSE currentDate

StepDate(currentDate, type, interval) ==
    IF type = "daily" THEN setDate(currentDate, getDate(currentDate) + interval)
    ELSE IF type = "weekly" THEN setDate(currentDate, getDate(currentDate) + interval * 7)
    ELSE IF type = "monthly" THEN setMonth(currentDate, getMonth(currentDate) + interval)
    ELSE currentDate

\* Variant of RecurringDates that stops before an instance at endDate
RECURSIVE RecurringDatesBefore(_, _)
RecurringDatesBefore(currentDate, recurrence) ==
    IF currentDate < recurrence.endDate
    THEN <<currentDate>> \o
         RecurringDatesBefore(StepDate(currentDate, recurrence.type, recurrence.interval),
                              recurrence)
    ELSE <<>>

\* The dates the while loop pushes, from currentDate on
RECURSIVE RecurringDates(_, _)
RecurringDates(currentDate, recurrence) ==
    IF currentDate <= recurrence.endDate
    THEN <<currentDate>> \o
         RecurringDates(StepDate(currentDate, recurrence.type, recurrence.interval),
                        recurrence)
    ELSE <<>>

\* Variant of generateRecurringAppointments that numbers the instances in
\* their notes
generateRecurringAppointmentsNumbered(baseAppointment, recurrence) ==
    LET dates == RecurringDates(baseAppointment.date, recurrence)
    IN  [k \in 1..Len(dates) |->
            [baseAppointment EXCEPT !.date = dates[k],
                                    !.notes = IF k = 1 THEN "first" ELSE "later"]]

\* The instances, in order; each is the base appointment at another date
\* (its appointmentId is drawn when the document is inserted)
generateRecurringAppointments(baseAppointment, recurrence) ==
    LET dates == RecurringDates(baseAppointment.date, recurrence)
    IN  [k \in 1..Len(dates) |-> [baseAppointment EXCEPT !.date = dates[k]]]

----------------------------------------------------------------------------
\* services/appointment_service.js: the user and hospital service clients

Retries == 3

\* The answers of a collaborator that the clients tell apart
ServiceUnavailable == 503
NotFound == 404

\* An attempt of a call meets a collaborator that answers ("up"), that
\* answers 503 ("down"), or that does not answer within the 5 s timeout
\* ("timeout").  net.user[i] and net.hospital[i] say which, for attempt i of
\* a call to the user service and to the hospital service.
Failing == {"down", "timeout"}

\* What axios.get throws at an attempt that meets how: response is
\* err.response?.status, 0 when the error has no response
RequestError(how) ==
    IF how = "down"
    THEN [response |-> ServiceUnavailable, message |-> "Request failed with status code 503"]
    ELSE [response |-> 0, message |-> "timeout of 5000ms exceeded"]

\* The try block of validateUser at one attempt: what it throws, or the user
validateUserTry(userId, role, how) ==
    IF how \in Failing
    THEN [thrown |-> TRUE, user |-> NoUser] @@ RequestError(how)
    ELSE IF userId \notin UserIds
    THEN [thrown |-> TRUE, user |-> NoUser, response |-> NotFound,
          message |-> "Request failed with status code 404"]
    ELSE IF Users[userId].role # role
    THEN [thrown |-> TRUE, user |-> NoUser, response |-> 0,
          message |-> "User is not of the role"]
    ELSE IF role = "doctor" /\ ~Users[userId].kycVerified
    THEN [thrown |-> TRUE, user |-> NoUser, response |-> 0,
          message |-> "Doctor KYC is not verified"]
    ELSE [thrown |-> FALSE, user |-> Users[userId], response |-> 0, message |-> ""]

\* The for loop of validateUser, from attempt i on.  Whatever the try block
\* throws (a failed call, the role mismatch, the KYC error) lands in the same
\* catch block, which throws CustomError(.., err.response?.status || 500,
\* {userId, error: err.message}) when i = retries and otherwise waits for
\* delay and goes round again.
RECURSIVE validateUserFrom(_, _, _, _, _)
validateUserFrom(userId, role, net, i, retries) ==
    LET t == validateUserTry(userId, role, net[i])
    IN  IF ~t.thrown
        THEN [ok |-> TRUE, user |-> t.user, attempts |-> i, delays |-> i - 1,
              err |-> CustomError("", 0, NoDetails)]
        ELSE IF i = retries
        THEN [ok |-> FALSE, user |-> NoUser, attempts |-> i, delays |-> i - 1,
              err |-> CustomError("Failed to validate user",
                                  IF t.response # 0 THEN t.response ELSE 500,
                                  [id |-> userId, error |-> t.message])]
        ELSE validateUserFrom(userId, role, net, i + 1, retries)

\* Variant of validateUser that gives up after its first attempt
validateUserOnce(userId, role, net) == validateUserFrom(userId, role, net, 1, 1)

validateUser(userId, role, net) == validateUserFrom(userId, role, net, 1, Retries)

\* validateHospital: the same loop around a call that hands nothing back
RECURSIVE validateHospitalFrom(_, _, _, _)
validateHospitalFrom(hospitalId, net, i, retries) ==
    IF net[i] \notin Failing
    THEN [ok |-> TRUE, attempts |-> i, delays |-> i - 1,
          err |-> CustomError("", 0, NoDetails)]
    ELSE IF i = retries
    THEN [ok |-> FALSE, attempts |-> i, delays |-> i - 1,
          err |-> CustomError("Failed to validate hospital",
                              IF RequestError(net[i]).response # 0
                              THEN RequestError(net[i]).response ELSE 500,
                              [id |-> hospitalId, error |-> RequestError(net[i]).message])]
    ELSE validateHospitalFrom(hospitalId, net, i + 1, retries)

validateHospital(hospitalId, net) == validateHospitalFrom(hospitalId, net, 1, Retries)

\* createNotification: the for loop from attempt i on.  A failed attempt is
\* logged and followed by the delay, the last one too; the function then
\* returns undefined.  It throws nothing.
RECURSIVE createNotificationFrom(_, _, _)
createNotificationFrom(net, i, retries) ==
    IF net[i] \notin Failing THEN [sent |-> 1, attempts |-> i, delays |-> i - 1]
    ELSE IF i = retries THEN [sent |-> 0, attempts |-> i, delays |-> i]
    ELSE createNotificationFrom(net, i + 1, retries)

createNotification(net) == createNotificationFrom(net, 1, Retries)

\* A user's e-mail address and phone number
EmailOf(user) == [emailOf |-> user.id]
PhoneOf(user) == [phoneOf |-> user.id]

\* The arguments the handlers give createNotification (subject, message and
\* externalId are left out)
EmailArgs(user) == [type |-> "email", recipient |-> EmailOf(user)]
SmsArgs(user) ==
    [type |-> "sms", recipient |-> EmailOf(user), phoneNumber |-> PhoneOf(user)]

\* The body createNotification posts: it takes type, recipient, subject,
\* message and externalId from its argument, and posts those
NotificationBody(args) == [type |-> args.type, recipient |-> args.recipient]

\* The bodies that reached the notification service
Posted(outcome, args) == IF outcome.sent = 1 THEN <<NotificationBody(args)>> ELSE <<>>

\* Variant of sendNotifications whose try block has no catch: the failed
\* lookup of the patient leaves the block
sendNotificationsUncaught(patient, net) ==
    LET email == createNotification(net.notification)
        sms   == IF patient.ok /\ patient.user.phoneNumber
                 THEN createNotification(net.notification)
                 ELSE [sent |-> 0, attempts |-> 0, delays |-> 0]
    IN  IF ~patient.ok
        THEN [thrown |-> TRUE, err |-> patient.err, sent |-> 0, posted |-> <<>>,
              calls |-> patient.attempts]
        ELSE [thrown |-> FALSE, err |-> CustomError("", 0, NoDetails),
              sent |-> email.sent + sms.sent,
              posted |-> Posted(email, EmailArgs(patient.user))
                         \o Posted(sms, SmsArgs(patient.user)),
              calls |-> patient.attempts + email.attempts + sms.attempts]

\* The try block around the notifications of a handler: the e-mail, then the
\* SMS when the patient has a phone number; patient is the outcome of the
\* lookup of the patient (in update and cancel the lookup is the first
\* statement of the block).  The catch block logs a warning, so nothing
\* leaves the block.
sendNotifications(patient, net) ==
    LET email == createNotification(net.notification)
        sms   == IF patient.ok /\ patient.user.phoneNumber
                 THEN createNotification(net.notification)
                 ELSE [sent |-> 0, attempts |-> 0, delays |-> 0]
    IN  IF ~patient.ok
        THEN [thrown |-> FALSE, err |-> CustomError("", 0, NoDetails), sent |-> 0,
              posted |-> <<>>, calls |-> patient.attempts]
        ELSE [thrown |-> FALSE, err |-> CustomError("", 0, NoDetails),
              sent |-> email.sent + sms.sent,
              posted |-> Posted(email, EmailArgs(patient.user))
                         \o Posted(sms, SmsArgs(patient.user)),
              calls |-> patient.attempts + email.attempts + sms.attempts]

----------------------------------------------------------------------------
\* models/appointment.js: the collection and the schema's hooks

BufferMinutes == 120
MinDuration == 15
MaxDuration == 120

Ids == 1..Len(appointments)

\* pre('find') / pre('findOne'): every query is narrowed to deleted: false
NotDeleted(a) == a.deleted = FALSE

\* Variant of ConflictQuery without the buffer before the start
ConflictQueryUnbuffered(a, doc) ==
    LET startTime == doc.date
        endTime   == doc.date + doc.duration
    IN  /\ a.doctorId = doc.doctorId
        /\ a.deleted = FALSE
        /\ a.status # "cancelled"
        /\ a.appointmentId # doc.appointmentId
        /\ a.date <= endTime
        /\ a.date >= startTime

\* The query of pre('save'): another live appointment of the doctor whose
\* date lies in [startTime - 120 min, endTime]
ConflictQuery(a, doc) ==
    LET startTime == doc.date
        endTime   == doc.date + doc.duration
    IN  /\ a.doctorId = doc.doctorId
        /\ a.deleted = FALSE
        /\ a.status # "cancelled"
        /\ a.appointmentId # doc.appointmentId
        /\ a.date <= endTime
        /\ a.date >= startTime - BufferMinutes

\* Variant of Conflicting whose query has no deleted and no status filter
ConflictingWithCancelled(doc) ==
    \E i \in Ids :
        /\ appointments[i].doctorId = doc.doctorId
        /\ appointments[i].appointmentId # doc.appointmentId
        /\ appointments[i].date <= doc.date + doc.duration
        /\ appointments[i].date >= doc.date - BufferMinutes

Conflicting(doc) ==
    \E i \in Ids : NotDeleted(appointments[i]) /\ ConflictQuery(appointments[i], doc)

\* The validation save() runs before the hooks of the schema, on the paths of
\* the document that were loaded, modified or defaulted: the validator of date
\* is value > new Date().  Its ValidationError has no statusCode.
validateBeforeSave(doc) == doc.date > now

\* pre('save') runs the query for a new document and for one whose date,
\* doctorId or duration is modified
NeedsConflictCheck(isNew, modified) ==
    isNew \/ "date" \in modified \/ "doctorId" \in modified \/ "duration" \in modified

\* a document inserted without an appointmentId of its own
NewDocumentUnnumbered(appt, id) ==
    [f \in DOMAIN appt \cup {"createdAt", "updatedAt"} |->
        IF f \in {"createdAt", "updatedAt"} THEN now
        ELSE IF f = "status" THEN "scheduled"
        ELSE IF f = "deleted" THEN FALSE
        ELSE appt[f]]

\* new Appointment(appt): the appointmentId, and the defaults of the schema
\* (status, deleted, createdAt and updatedAt: Date.now)
NewDocument(appt, id) ==
    [f \in DOMAIN appt \cup {"createdAt", "updatedAt"} |->
        IF f \in {"createdAt", "updatedAt"} THEN now
        ELSE IF f = "appointmentId" THEN id
        ELSE IF f = "status" THEN "scheduled"
        ELSE IF f = "deleted" THEN FALSE
        ELSE appt[f]]

\* The timestamps option of the schema: a save of a loaded document that has
\* a modified path sets updatedAt to the time of the save
Timestamps(doc, modified) ==
    IF modified = {} THEN doc ELSE [doc EXCEPT !.updatedAt = now]

TimestampPaths(modified) == IF modified = {} THEN {} ELSE modified \cup {"updatedAt"}

\* save() of a loaded document writes its modified paths only
ApplyModified(stored, doc, modified) ==
    [f \in DOMAIN stored |-> IF f \in modified THEN doc[f] ELSE stored[f]]

\* A handler's query: appointmentId (0: any), patientId, doctorId, status
\* (Unset: the key is not in the query) and deleted: false
Unset == "unset"

Matches(a, query) ==
    /\ a.deleted = FALSE
    /\ query.appointmentId \in {0, a.appointmentId}
    /\ query.patientId \in {Unset, a.patientId}
    /\ query.doctorId \in {Unset, a.doctorId}
    /\ query.status \in {Unset, a.status}

\* Variant of Find without the deleted: false scope, neither the hook's nor
\* the query's own
FindWithDeleted(query) ==
    LET hits == {i \in Ids :
                   /\ query.appointmentId \in {0, appointments[i].appointmentId}
                   /\ query.patientId \in {Unset, appointments[i].patientId}
                   /\ query.doctorId \in {Unset, appointments[i].doctorId}
                   /\ query.status \in {Unset, appointments[i].status}}
        RECURSIVE Upto(_)
        Upto(n) == IF n = 0 THEN <<>>
                   ELSE IF n \in hits THEN Append(Upto(n - 1), appointments[n])
                   ELSE Upto(n - 1)
    IN  Upto(Len(appointments))

\* Appointment.find(query), in the collection's order
Find(query) ==
    LET hits == {i \in Ids : NotDeleted(appointments[i]) /\ Matches(appointments[i], query)}
        RECURSIVE Upto(_)
        Upto(n) == IF n = 0 THEN <<>>
                   ELSE IF n \in hits THEN Append(Upto(n - 1), appointments[n])
                   ELSE Upto(n - 1)
    IN  Upto(Len(appointments))

\* Variant of CountDocuments that counts the deleted records too
CountDocumentsWithDeleted(query) ==
    Cardinality({i \in Ids :
                   /\ query.appointmentId \in {0, appointments[i].appointmentId}
                   /\ query.patientId \in {Unset, appointments[i].patientId}
                   /\ query.doctorId \in {Unset, appointments[i].doctorId}
                   /\ query.status \in {Unset, appointments[i].status}})

\* Appointment.countDocuments(query): no hook narrows it; the handler's query
\* holds deleted: false itself
CountDocuments(query) == Cardinality({i \in Ids : Matches(appointments[i], query)})

\* Appointment.findOne(query)
FindOne(query) ==
    LET found == Find(query)
    IN  IF found = <<>> THEN NoDoc ELSE found[1]

----------------------------------------------------------------------------
\* validations/appointment.validation.js, in its two versions: the one with
\* a recurrence rule on create and update, and the one with a status on update

WithRecurrence == "validations/appointment.validation.js"
WithStatus == "unnamed/part_008"

\* Joi.object rejects a key the schema does not name
createAppointmentSchema(body) ==
    /\ IF validation = WithRecurrence THEN body.date > now ELSE body.date >= now
    /\ body.duration >= MinDuration /\ body.duration <= MaxDuration
    /\ IF validation = WithRecurrence
       THEN /\ body.recurrence.type \in {"null", "daily", "weekly", "monthly"}
            /\ body.recurrence.type # "null" =>
                  body.recurrence.interval >= 1 /\ body.recurrence.endDate > body.date
       ELSE body.recurrence.type = "null"

updateAppointmentSchema(value) ==
    /\ DOMAIN value \subseteq
          IF validation = WithRecurrence
          THEN {"date", "duration", "type", "notes", "consent", "recurrence"}
          ELSE {"date", "duration", "type", "status", "notes", "consent"}
    /\ validation = WithStatus => DOMAIN value # {}
    /\ "date" \in DOMAIN value =>
          IF validation = WithRecurrence THEN value.date > now ELSE value.date >= now
    /\ "duration" \in DOMAIN value =>
          value.duration >= MinDuration /\ value.duration <= MaxDuration
    /\ "status" \in DOMAIN value =>
          value.status \in {"scheduled", "completed", "cancelled"}

----------------------------------------------------------------------------
\* The requests

NoBody == [none |-> TRUE]
NoNet == [none |-> TRUE]

IdleReq ==
    [ pc         |-> "idle",
      op         |-> "none",
      user       |-> NoUser,     \* req.user
      id         |-> 0,          \* req.params.id
      body       |-> NoBody,     \* the validated body or query
      doc        |-> NoDoc,      \* the loaded document, as changed in memory
      modified   |-> {},         \* its modified paths
      todo       |-> <<>>,       \* appointmentsToSave not yet saved
      saved      |-> <<>>,       \* savedAppointments
      net        |-> NoNet,      \* what its calls to the collaborators met
      calls      |-> 0,          \* calls made to the user and hospital services
      delays     |-> 0,          \* waits of delay ms between those calls' attempts
      details    |-> NoDetails,  \* err.details of the error handed to next
      notify     |-> NoNet,      \* what its notifications met, once it has written
      sent       |-> 0,          \* notifications delivered
      posted     |-> <<>>,       \* the bodies the notification service received
      total      |-> 0,          \* meta.total of a list response
      late       |-> FALSE,      \* the target was already cancelled when the request began
      currentDate |-> NoDate,    \* currentDate of generateRecurringAppointments' loop
      statusCode |-> 0,          \* of the response, or of the error handed to next
      data       |-> <<>> ]      \* the documents in the response

Respond(r, statusCode, data) ==
    [r EXCEPT !.pc = "done", !.statusCode = statusCode, !.data = data,
              !.doc = NoDoc, !.modified = {}, !.todo = <<>>]

\* A handler sends its response (res.json, or next(err)) in the same turn of
\* the event loop as its last step: a request that is done is a response being
\* sent, and no other handler runs before it has gone
Sending == \E s \in DOMAIN req : req[s].pc = "done"

IsCancelled(id) == id \in Ids /\ appointments[id].deleted

\* The collection is kept to cap documents: a create is taken up, and an
\* insert done, only while there is room
Room(cap) == Len(appointments) < cap

----------------------------------------------------------------------------
\* controllers/appointment.controller.js: createAppointment

\* Variant of createForAnotherPatient that lets every create through
createForAnyPatient(user, patientId) == FALSE

\* The patient's own-id rule: a patient creates for their own patientId only
createForAnotherPatient(user, patientId) ==
    user.role = "patient" /\ user.id # patientId

\* The base appointment of a create; status and deleted are the schema's
\* defaults
BaseAppointment(user, body) ==
    [ appointmentId |-> 0,
      patientId     |-> body.patientId,
      doctorId      |-> body.doctorId,
      date          |-> body.date,
      duration      |-> body.duration,
      status        |-> "scheduled",
      deleted       |-> FALSE,
      notes         |-> body.notes,
      consent       |-> [ given     |-> body.consent.given,
                          purpose   |-> body.consent.purpose,
                          grantedAt |-> IF body.consent.given THEN now ELSE NoDate ],
      createdBy     |-> user.id,
      updatedBy     |-> user.id ]

\* Variant of createAppointmentPrepare that applies the own-id rule after the
\* user and hospital services have been asked
createAppointmentPrepareLate(user, body, net) ==
    LET patient  == validateUser(body.patientId, "patient", net.user)
        doctor   == validateUser(body.doctorId, "doctor", net.user)
        hospital == validateHospital(body.hospitalId, net.hospital)
        r        == [IdleReq EXCEPT !.op = "create", !.user = user, !.body = body]
        rp       == [r EXCEPT !.net = net, !.calls = patient.attempts,
                              !.delays = patient.delays]
        rd       == [rp EXCEPT !.calls = @ + doctor.attempts, !.delays = @ + doctor.delays]
        rh       == [rd EXCEPT !.calls = @ + hospital.attempts,
                               !.delays = @ + hospital.delays]
        baseAppointment == BaseAppointment(user, body)
        appointmentsToSave ==
            IF body.recurrence.type # "null"
            THEN generateRecurringAppointments(baseAppointment, body.recurrence)
            ELSE <<baseAppointment>>
    IN  IF ~createAppointmentSchema(body)
        THEN Respond(r, 400, <<>>)
        ELSE IF ~patient.ok
        THEN Respond([rp EXCEPT !.details = patient.err.details],
                     patient.err.statusCode, <<>>)
        ELSE IF ~doctor.ok
        THEN Respond([rd EXCEPT !.details = doctor.err.details],
                     doctor.err.statusCode, <<>>)
        ELSE IF ~doctor.user.kycVerified
        THEN Respond([rd EXCEPT !.details = [id |-> body.doctorId]], 403, <<>>)
        ELSE IF ~hospital.ok
        THEN Respond([rh EXCEPT !.details = hospital.err.details],
                     hospital.err.statusCode, <<>>)
        ELSE IF createForAnotherPatient(user, body.patientId)
        THEN Respond(rh, 403, <<>>)
        ELSE IF appointmentsToSave = <<>>
        THEN Respond(rh, 201, <<>>)
        ELSE [rh EXCEPT !.pc = "presave", !.todo = appointmentsToSave]

\* The handler up to its first save: validation, the patient's own-id rule,
\* the user and hospital services, the base appointment and its instances
createAppointmentPrepare(user, body, net) ==
    LET patient  == validateUser(body.patientId, "patient", net.user)
        doctor   == validateUser(body.doctorId, "doctor", net.user)
        hospital == validateHospital(body.hospitalId, net.hospital)
        r        == [IdleReq EXCEPT !.op = "create", !.user = user, !.body = body]
        rp       == [r EXCEPT !.net = net, !.calls = patient.attempts,
                              !.delays = patient.delays]
        rd       == [rp EXCEPT !.calls = @ + doctor.attempts, !.delays = @ + doctor.delays]
        rh       == [rd EXCEPT !.calls = @ + hospital.attempts,
                               !.delays = @ + hospital.delays]
        baseAppointment == BaseAppointment(user, body)
        appointmentsToSave ==
            IF body.recurrence.type # "null"
            THEN generateRecurringAppointments(baseAppointment, body.recurrence)
            ELSE <<baseAppointment>>
    IN  IF ~createAppointmentSchema(body)
        THEN Respond(r, 400, <<>>)
        ELSE IF createForAnotherPatient(user, body.patientId)
        THEN Respond(r, 403, <<>>)
        ELSE IF ~patient.ok
        THEN Respond([rp EXCEPT !.details = patient.err.details],
                     patient.err.statusCode, <<>>)
        ELSE IF ~doctor.ok
        THEN Respond([rd EXCEPT !.details = doctor.err.details],
                     doctor.err.statusCode, <<>>)
        ELSE IF ~doctor.user.kycVerified
        THEN Respond([rd EXCEPT !.details = [id |-> body.doctorId]], 403, <<>>)
        ELSE IF ~hospital.ok
        THEN Respond([rh EXCEPT !.details = hospital.err.details],
                     hospital.err.statusCode, <<>>)
        ELSE IF appointmentsToSave = <<>>
        THEN Respond(rh, 201, <<>>)
        ELSE [rh EXCEPT !.pc = "presave", !.todo = appointmentsToSave]

createAppointment(s, token, body, net, cap) ==
    LET auth == authenticate(CreateRoles, token)
        r    == IF auth.ok
                THEN createAppointmentPrepare(auth.user, body, net)
                ELSE Respond([IdleReq EXCEPT !.op = "create", !.user = auth.user],
                             auth.err.statusCode, <<>>)
    IN  /\ req[s].pc = "idle"
        /\ ~Sending
        /\ Room(cap)
        /\ req' = [req EXCEPT ![s] = r]
        /\ UNCHANGED <<appointments, validation, now>>

\* appointment.save() of the next instance, first half: pre('save') queries
\* the collection; a conflict ends the request with 409 and leaves the
\* instances saved so far in place
createAppointmentPreSave(s) ==
    LET r == req[s]
    IN  /\ r.pc = "presave" /\ r.op = "create"
        /\ ~Sending
        /\ req' = [req EXCEPT ![s] =
                     IF ~validateBeforeSave(Head(r.todo))
                     THEN Respond(r, NoStatusCode, <<>>)
                     ELSE IF NeedsConflictCheck(TRUE, {}) /\ Conflicting(Head(r.todo))
                     THEN Respond(r, 409, <<>>)
                     ELSE [r EXCEPT !.pc = "write"]]
        /\ UNCHANGED <<appointments, validation, now>>

\* second half: the insert; then the notifications of the instance, to the
\* patient validateUser returned, and the next instance or the 201 response.
\* An error that left the notifications would go to the handler's catch block.
createAppointmentSave(s, net, cap) ==
    LET r           == req[s]
        appointment == NewDocument(Head(r.todo), Len(appointments) + 1)
        saved       == Append(r.saved, appointment)
        patient     == [ok |-> TRUE, user |-> Users[appointment.patientId], attempts |-> 0]
        notified    == sendNotifications(patient, net)
        rn          == [r EXCEPT !.saved = saved, !.notify = net,
                                 !.sent = @ + notified.sent,
                                 !.posted = @ \o notified.posted]
    IN  /\ r.pc = "write" /\ r.op = "create"
        /\ ~Sending
        /\ Room(cap)
        /\ appointments' = Append(appointments, appointment)
        /\ UNCHANGED <<validation, now>>
        /\ req' = [req EXCEPT ![s] =
                     IF notified.thrown
                     THEN Respond(rn, notified.err.statusCode, <<>>)
                     ELSE IF Tail(r.todo) = <<>>
                     THEN Respond(rn, 201, saved)
                     ELSE [rn EXCEPT !.pc = "presave", !.todo = Tail(r.todo)]]

----------------------------------------------------------------------------
\* getAppointments and getAppointmentById

\* Variant of getAppointmentsQuery that applies the request's filters for
\* every role
getAppointmentsQueryUnscoped(user, value) ==
    [ appointmentId |-> 0,
      patientId |-> value.patientId,
      doctorId  |-> value.doctorId,
      status    |-> value.status ]

getAppointmentsQuery(user, value) ==
    [ appointmentId |-> 0,
      patientId |-> IF user.role = "patient" THEN user.id
                    ELSE IF value.patientId # Unset /\ user.role = "admin"
                    THEN value.patientId ELSE Unset,
      doctorId  |-> IF user.role = "doctor" THEN user.id
                    ELSE IF value.doctorId # Unset /\ user.role = "admin"
                    THEN value.doctorId ELSE Unset,
      status    |-> value.status ]

getAppointments(s, token, value) ==
    LET auth == authenticate(ReadRoles, token)
        r    == [IdleReq EXCEPT !.op = "list", !.user = auth.user]
    IN  /\ req[s].pc = "idle"
        /\ ~Sending
        /\ req' = [req EXCEPT ![s] =
                     IF ~auth.ok THEN Respond(r, auth.err.statusCode, <<>>)
                     ELSE IF auth.user.role \notin {"patient", "doctor", "admin"}
                     THEN Respond([r EXCEPT !.body = value], 403, <<>>)
                     ELSE Respond([r EXCEPT !.body = value,
                                            !.total = CountDocuments(
                                                getAppointmentsQuery(auth.user, value))],
                                  200, Find(getAppointmentsQuery(auth.user, value)))]
        /\ UNCHANGED <<appointments, validation, now>>

getAppointmentByIdQuery(user, id) ==
    [ appointmentId |-> id,
      patientId |-> IF user.role = "patient" THEN user.id ELSE Unset,
      doctorId  |-> IF user.role = "doctor" THEN user.id ELSE Unset,
      status    |-> Unset ]

getAppointmentById(s, token, id) ==
    LET auth        == authenticate(ReadRoles, token)
        r           == [IdleReq EXCEPT !.op = "get", !.user = auth.user, !.id = id,
                                       !.late = IsCancelled(id)]
        appointment == FindOne(getAppointmentByIdQuery(auth.user, id))
    IN  /\ req[s].pc = "idle"
        /\ ~Sending
        /\ req' = [req EXCEPT ![s] =
                     IF ~auth.ok THEN Respond(r, auth.err.statusCode, <<>>)
                     ELSE IF auth.user.role \notin {"patient", "doctor", "admin"}
                     THEN Respond(r, 403, <<>>)
                     ELSE IF appointment = NoDoc THEN Respond(r, 404, <<>>)
                     ELSE Respond(r, 200, <<appointment>>)]
        /\ UNCHANGED <<appointments, validation, now>>

----------------------------------------------------------------------------
\* updateAppointment

\* Variant of writeQuery without the patient's scope
writeQueryUnscoped(user, id) ==
    [ appointmentId |-> id,
      patientId |-> Unset,
      doctorId  |-> Unset,
      status    |-> Unset ]

\* The query of updateAppointment and cancelAppointment
writeQuery(user, id) ==
    [ appointmentId |-> id,
      patientId |-> IF user.role = "patient" THEN user.id ELSE Unset,
      doctorId  |-> Unset,
      status    |-> Unset ]

\* Object.assign(appointment, {...value, updatedBy: req.user.id,
\* updatedAt: Date.now()})
AssignUpdates(appointment, value, user) ==
    [f \in DOMAIN appointment |->
        IF f = "consent" /\ f \in DOMAIN value
        THEN [ given     |-> value.consent.given,
               purpose   |-> value.consent.purpose,
               grantedAt |-> IF value.consent.given THEN now
                             ELSE appointment.consent.grantedAt ]
        ELSE IF f \in DOMAIN value THEN value[f]
        ELSE IF f = "updatedBy" THEN user.id
        ELSE IF f = "updatedAt" THEN now
        ELSE appointment[f]]

\* The paths an assignment has changed.  updatedAt is among them: the handler
\* assigns it a reading of the clock, which is finer than now and differs from
\* the reading an earlier request stored
ModifiedPaths(before, after) ==
    {f \in DOMAIN before : before[f] # after[f]} \cup {"updatedAt"}

updateAppointment(s, token, id, value) ==
    LET auth        == authenticate(WriteRoles, token)
        r           == [IdleReq EXCEPT !.op = "update", !.user = auth.user, !.id = id,
                                       !.late = IsCancelled(id)]
        rb          == [r EXCEPT !.body = value]
        appointment == FindOne(writeQuery(auth.user, id))
        updated     == AssignUpdates(appointment, value, auth.user)
        modified    == ModifiedPaths(appointment, updated)
    IN  /\ req[s].pc = "idle"
        /\ ~Sending
        /\ req' = [req EXCEPT ![s] =
                     IF ~auth.ok THEN Respond(r, auth.err.statusCode, <<>>)
                     ELSE IF ~updateAppointmentSchema(value) THEN Respond(rb, 400, <<>>)
                     ELSE IF auth.user.role \notin {"patient", "admin"}
                     THEN Respond(rb, 403, <<>>)
                     ELSE IF appointment = NoDoc THEN Respond(rb, 404, <<>>)
                     ELSE [rb EXCEPT !.doc = updated, !.modified = modified,
                                     !.pc = IF NeedsConflictCheck(FALSE, modified)
                                            THEN "presave" ELSE "write"]]
        /\ UNCHANGED <<appointments, validation, now>>

\* appointment.save(), first half: pre('save') with date or duration modified
\* Variant of updateAppointmentPreSave that looks for the conflict after the
\* modified paths have been written
updateAppointmentWriteThenCheck(s) ==
    LET r == req[s]
    IN  /\ r.pc = "presave" /\ r.op = "update"
        /\ ~Sending
        /\ req' = [req EXCEPT ![s] =
                     IF ~validateBeforeSave(r.doc) THEN Respond(r, NoStatusCode, <<>>)
                     ELSE IF Conflicting(r.doc) THEN Respond(r, 409, <<>>)
                     ELSE [r EXCEPT !.pc = "write"]]
        /\ appointments' = IF validateBeforeSave(r.doc) /\ Conflicting(r.doc)
                           THEN [appointments EXCEPT
                                    ![r.id] = ApplyModified(@, Timestamps(r.doc, r.modified),
                                                            TimestampPaths(r.modified))]
                           ELSE appointments
        /\ UNCHANGED <<validation, now>>

updateAppointmentPreSave(s) ==
    LET r == req[s]
    IN  /\ r.pc = "presave" /\ r.op = "update"
        /\ ~Sending
        /\ req' = [req EXCEPT ![s] =
                     IF ~validateBeforeSave(r.doc) THEN Respond(r, NoStatusCode, <<>>)
                     ELSE IF Conflicting(r.doc) THEN Respond(r, 409, <<>>)
                     ELSE [r EXCEPT !.pc = "write"]]
        /\ UNCHANGED <<appointments, validation, now>>

\* second half: the modified paths are written; then the notifications, which
\* begin by looking the patient up, and the response with the document in
\* memory.  A save without a conflict check begins here, with its validation.
updateAppointmentSave(s, net) ==
    LET r        == req[s]
        patient  == validateUser(r.doc.patientId, "patient", net.user)
        notified == sendNotifications(patient, net)
        rn       == [r EXCEPT !.notify = net, !.sent = notified.sent,
                                 !.posted = notified.posted]
        invalid  == ~NeedsConflictCheck(FALSE, r.modified) /\ ~validateBeforeSave(r.doc)
    IN  /\ r.pc = "write" /\ r.op = "update"
        /\ ~Sending
        /\ appointments' = IF invalid THEN appointments
                           ELSE [appointments EXCEPT
                                    ![r.id] = ApplyModified(@, Timestamps(r.doc, r.modified),
                                                            TimestampPaths(r.modified))]
        /\ UNCHANGED <<validation, now>>
        /\ req' = [req EXCEPT ![s] =
                     IF invalid
                     THEN [Respond(r, NoStatusCode, <<>>) EXCEPT !.modified = r.modified]
                     ELSE IF notified.thrown
                     THEN Respond(rn, notified.err.statusCode, <<>>)
                     ELSE [Respond(rn, 200, <<Timestamps(r.doc, r.modified)>>)
                              EXCEPT !.modified = r.modified]]

----------------------------------------------------------------------------
\* cancelAppointment

\* status = 'cancelled', deleted = true, updatedBy = req.user.id, updatedAt =
\* Date.now()
AssignCancel(appointment, user) ==
    [appointment EXCEPT !.status = "cancelled", !.deleted = TRUE, !.updatedBy = user.id,
                        !.updatedAt = now]

cancelAppointment(s, token, id) ==
    LET auth        == authenticate(WriteRoles, token)
        r           == [IdleReq EXCEPT !.op = "cancel", !.user = auth.user, !.id = id,
                                       !.late = IsCancelled(id)]
        appointment == FindOne(writeQuery(auth.user, id))
        cancelled   == AssignCancel(appointment, auth.user)
    IN  /\ req[s].pc = "idle"
        /\ ~Sending
        /\ req' = [req EXCEPT ![s] =
                     IF ~auth.ok THEN Respond(r, auth.err.statusCode, <<>>)
                     ELSE IF auth.user.role \notin {"patient", "admin"}
                     THEN Respond(r, 403, <<>>)
                     ELSE IF appointment = NoDoc THEN Respond(r, 404, <<>>)
                     ELSE [r EXCEPT !.doc = cancelled, !.pc = "write",
                                    !.modified = ModifiedPaths(appointment, cancelled)]]
        /\ UNCHANGED <<appointments, validation, now>>

\* cancelAppointment with a deleteOne in place of the soft delete
cancelAppointmentRemove(s, net) ==
    LET r == req[s]
    IN  /\ r.pc = "write" /\ r.op = "cancel"
        /\ ~Sending
        /\ appointments' = SelectSeq(appointments, LAMBDA a : a.appointmentId # r.id)
        /\ UNCHANGED <<validation, now>>
        /\ req' = [req EXCEPT ![s] = Respond(r, 200, <<>>)]

\* appointment.save(): its validation; no path that pre('save') looks at is
\* modified; the modified paths are written, then the notifications, which
\* begin by looking the patient up, and the response
cancelAppointmentSave(s, net) ==
    LET r        == req[s]
        patient  == validateUser(r.doc.patientId, "patient", net.user)
        notified == sendNotifications(patient, net)
        rn       == [r EXCEPT !.notify = net, !.sent = notified.sent,
                                 !.posted = notified.posted]
        invalid  == ~validateBeforeSave(r.doc)
    IN  /\ r.pc = "write" /\ r.op = "cancel"
        /\ ~Sending
        /\ appointments' = IF invalid THEN appointments
                           ELSE [appointments EXCEPT
                                    ![r.id] = ApplyModified(@, Timestamps(r.doc, r.modified),
                                                            TimestampPaths(r.modified))]
        /\ UNCHANGED <<validation, now>>
        /\ req' = [req EXCEPT ![s] =
                     IF invalid THEN Respond(r, NoStatusCode, <<>>)
                     ELSE IF notified.thrown
                     THEN Respond(rn, notified.err.statusCode, <<>>)
                     ELSE Respond(rn, 200, <<>>)]

----------------------------------------------------------------------------
\* generateRecurringAppointments on its own: the call createAppointment makes
\* for a body with a recurrence, with its result kept as appointmentsToSave

generateRecurringAppointmentsCall(s, user, body) ==
    /\ req[s].pc = "idle"
    /\ req' = [req EXCEPT ![s] =
                 [IdleReq EXCEPT !.pc = "done", !.op = "generate", !.user = user,
                                 !.body = body,
                                 !.todo = generateRecurringAppointments(
                                              BaseAppointment(user, body),
                                              body.recurrence)]]
    /\ UNCHANGED <<appointments, validation, now>>

\* The same call, one iteration of its while loop at a time.  createAppointment
\* makes it for a body its schema has accepted: currentDate starts at the base
\* date and appointments (kept as todo) starts empty.
generateRecurringAppointmentsEnter(s, user, body) ==
    /\ req[s].pc = "idle"
    /\ createAppointmentSchema(body)
    /\ body.recurrence.type # "null"
    /\ req' = [req EXCEPT ![s] =
                 [IdleReq EXCEPT !.pc = "loop", !.op = "generate", !.user = user,
                                 !.body = body, !.currentDate = body.date]]
    /\ UNCHANGED <<appointments, validation, now>>

\* while (currentDate <= end): push the base appointment at currentDate, then
\* step currentDate
generateRecurringAppointmentsIteration(s) ==
    LET r          == req[s]
        recurrence == r.body.recurrence
    IN  /\ r.pc = "loop"
        /\ r.currentDate <= recurrence.endDate
        /\ Len(r.todo) < MaxInstances
        /\ req' = [req EXCEPT ![s] =
                     [r EXCEPT !.todo = Append(@, [BaseAppointment(r.user, r.body)
                                                     EXCEPT !.date = r.currentDate]),
                               !.currentDate = StepDate(@, recurrence.type,
                                                        recurrence.interval)]]
        /\ UNCHANGED <<appointments, validation, now>>

\* The loop's condition fails: return appointments
generateRecurringAppointmentsReturn(s) ==
    LET r == req[s]
    IN  /\ r.pc = "loop"
        /\ ~(r.currentDate <= r.body.recurrence.endDate)
        /\ req' = [req EXCEPT ![s] = [r EXCEPT !.pc = "done"]]
        /\ UNCHANGED <<appointments, validation, now>>

----------------------------------------------------------------------------
\* midlewares/ErrorHandler.js, which app.js mounts after the routes

Environments == {"production", "development"}

\* An error thrown inside the error handler is answered by Express itself:
\* 500, with the stack of the thrown error in the body unless NODE_ENV is
\* 'production'
ThrownInHandler(env) ==
    [statusCode |-> 500, ownMessage |-> FALSE, stack |-> env # "production"]

\* statusCode = err.statusCode || 500; message = err.message | '...', a
\* bitwise or, which is 0; statusCode.toUpperCase() throws a TypeError when
\* statusCode is a number; details is an object, so the call details(...)
\* in the body throws for a string statusCode too
errorHandler(err, env) ==
    LET statusCode == IF err.statusCode = NoStatusCode THEN 500 ELSE err.statusCode
        detailsIsAFunction == FALSE
    IN  IF IsInteger(statusCode) THEN ThrownInHandler(env)
        ELSE IF ~detailsIsAFunction THEN ThrownInHandler(env)
        ELSE [statusCode |-> statusCode, ownMessage |-> FALSE,
              stack |-> env # "production"]

----------------------------------------------------------------------------
\* Time passes: the clock moves on to t

Tick(t) ==
    /\ t > now
    /\ now' = t
    /\ UNCHANGED <<appointments, req, validation>>

----------------------------------------------------------------------------
\* The response has been sent: the slot is free again

Finish(s) ==
    /\ req[s].pc = "done"
    /\ req' = [req EXCEPT ![s] = IdleReq]
    /\ UNCHANGED <<appointments, validation, now>>

----------------------------------------------------------------------------
\* The inputs the requests are drawn from

DailyUntil(endDate) == [type |-> "daily", interval |-> 1, endDate |-> endDate]

CreateBody(p, d, t, n, r) ==
    [patientId |-> p, doctorId |-> d, hospitalId |-> "h1", date |-> t, duration |-> n,
     notes |-> "", consent |-> NoConsent, recurrence |-> r]

\* the same body with the patient's consent given
Consenting(body) == [body EXCEPT !.consent.given = TRUE]

NoFilter == [patientId |-> Unset, doctorId |-> Unset, status |-> Unset]

\* Both collaborators answer; neither does
AllUp == <<"up", "up", "up">>
AllDown == <<"down", "down", "down">>
AllTimeout == <<"timeout", "timeout", "timeout">>

\* Every collaborator answers; none does
Up == [user |-> AllUp, hospital |-> AllUp, notification |-> AllUp]
Down == [user |-> AllDown, hospital |-> AllDown, notification |-> AllDown]

\* Spec: every role, two patients, the authorization and lookup paths
AccessInputs ==
    [ tokens  |-> { Token("missing", "none", "none"),
                    Token("ok", "p1", "patient"),
                    Token("ok", "d1", "doctor"),
                    Token("ok", "a1", "admin"),
                    Token("ok", "none", "none") },
      bodies  |-> { CreateBody("p1", "d1", 600, 30, NoRecurrence),
                    CreateBody("p2", "d2", 2040, 30, NoRecurrence),
                    CreateBody("p1", "d3", 600, 30, NoRecurrence),
                    CreateBody("p2", "d1", 600, 5, NoRecurrence) },
      nets    |-> { Up, Down },
      notifiers |-> { Up },
      values  |-> { [date |-> 660], [duration |-> 5] },
      queries |-> { NoFilter, [NoFilter EXCEPT !.patientId = "p2"],
                    [NoFilter EXCEPT !.doctorId = "d2"],
                    [NoFilter EXCEPT !.status = "cancelled"] },
      ids     |-> 1..MaxAppts,
      cap     |-> MaxAppts,
      validations |-> { WithRecurrence } ]

\* SpecSchedule: one doctor's calendar, written by the admin
ScheduleInputs ==
    [ tokens  |-> { Token("ok", "a1", "admin") },
      bodies  |-> { CreateBody("p1", "d1", 600, 30, NoRecurrence),
                    CreateBody("p1", "d1", 660, 30, NoRecurrence),
                    CreateBody("p1", "d1", 2040, 30, NoRecurrence),
                    CreateBody("p1", "d1", 600, 30, DailyUntil(2040)) },
      nets    |-> { Up },
      notifiers |-> { Up },
      values  |-> { [date |-> 660], [status |-> "cancelled"],
                    [status |-> "completed"], [status |-> "scheduled"] },
      queries |-> { NoFilter },
      ids     |-> 1..ScheduleMaxAppts,
      cap     |-> ScheduleMaxAppts,
      validations |-> { WithRecurrence, WithStatus } ]

WeeklyUntil(endDate) == [type |-> "weekly", interval |-> 1, endDate |-> endDate]

\* SpecServices: the collaborators in every mood, one request at a time
ServiceInputs ==
    [ tokens  |-> { Token("ok", "a1", "admin"), Token("ok", "p1", "patient") },
      bodies  |-> { CreateBody("p1", "d1", 600, 30, NoRecurrence),
                    CreateBody("p1", "d1", 660, 30, NoRecurrence),
                    CreateBody("p1", "d1", 780, 30, NoRecurrence),
                    CreateBody("p1", "d3", 600, 30, NoRecurrence),
                    CreateBody("p1", "d9", 600, 30, NoRecurrence),
                    CreateBody("d1", "d1", 600, 30, NoRecurrence),
                    CreateBody("p1", "d1", 600, 5, NoRecurrence),
                    CreateBody("p1", "d1", 600, 30, WeeklyUntil(600 + 7 * MinutesPerDay)) },
      nets    |-> { Up,
                    [Up EXCEPT !.user = AllDown],
                    [Up EXCEPT !.user = AllTimeout],
                    [Up EXCEPT !.user = <<"down", "timeout", "up">>],
                    [Up EXCEPT !.hospital = AllDown],
                    [Up EXCEPT !.hospital = AllTimeout],
                    [Up EXCEPT !.hospital = <<"timeout", "up", "up">>] },
      notifiers |-> { Up,
                      [Up EXCEPT !.notification = AllDown],
                      [Up EXCEPT !.notification = AllTimeout],
                      [Up EXCEPT !.notification = <<"down", "up", "up">>],
                      [Up EXCEPT !.user = AllDown] },
      values  |-> { [date |-> 780], [notes |-> "x"] },
      queries |-> { NoFilter },
      ids     |-> 1..ServiceMaxAppts,
      cap     |-> ServiceMaxAppts,
      validations |-> { WithRecurrence } ]

Days(n) == n * MinutesPerDay

\* SpecRecurrence: base dates at the start, at the 31st and at the end of a
\* month and at the end of the year, 10:00; end dates before, at and after
\* the base date
RecurrenceInputs ==
    [ starts    |-> { MakeDate(2025, 0, 1, 600), MakeDate(2025, 0, 31, 600),
                      MakeDate(2025, 1, 28, 600), MakeDate(2025, 11, 30, 600) },
      types     |-> { "daily", "weekly", "monthly" },
      intervals |-> 1..MaxInterval,
      spans     |-> { 0 - Days(1), 0 - 1, 0, 1, Days(1), Days(7), Days(14), Days(28),
                      Days(31), Days(62) },
      validations |-> { WithRecurrence } ]

\* SpecLoop: the base dates of SpecRecurrence; end dates at the base date
\* (which the schema refuses) and up to a week of days, four weeks and two
\* months after it
LoopSpans(type) ==
    IF type = "daily" THEN { 0, 1, Days(1), Days(7) }
    ELSE IF type = "weekly" THEN { 0, Days(7), Days(28) }
    ELSE { 0, Days(31), Days(62) }

\* SpecClock: two doctors' calendars while the time passes from before the
\* appointments to after them, one request at a time, by a patient and by
\* callers without a valid token
ClockInputs ==
    [ tokens  |-> { Token("ok", "p1", "patient"),
                    Token("missing", "none", "none"), Token("badkey", "p1", "patient") },
      bodies  |-> { CreateBody("p1", "d1", 600, 30, NoRecurrence),
                    Consenting(CreateBody("p1", "d1", 660, 30, NoRecurrence)),
                    CreateBody("p2", "d2", 600, 30, NoRecurrence) },
      nets    |-> { Up },
      notifiers |-> { Up },
      values  |-> { [notes |-> "x"], [date |-> 660], [duration |-> 60],
                    [consent |-> NoConsent] },
      queries |-> { NoFilter },
      clock   |-> { 630 },
      ids     |-> 1..ClockMaxAppts,
      cap     |-> ClockMaxAppts,
      validations |-> { WithRecurrence } ]

\* SpecConflict: a doctor's one appointment and a create for the same doctor
\* that is about to run pre('save')
ConflictInputs ==
    [ proposed  |-> { CreateBody("p1", "d1", 600, n, NoRecurrence) : n \in {15, 30, 120} },
      starts    |-> { 600 - Reach + Grid * k : k \in 0..((2 * Reach) \div Grid) },
      durations |-> { 15, 60, 120 },
      statuses  |-> { "scheduled", "completed" },
      nets      |-> { Up },
      notifiers |-> { Up },
      cap       |-> 2,
      validations |-> { WithRecurrence } ]

----------------------------------------------------------------------------

InitOver(slots, in) ==
    /\ now = 0
    /\ appointments = <<>>
    /\ req = [s \in 1..slots |-> IdleReq]
    /\ validation \in in.validations

\* Spec: the authorization and lookup paths, requests in flight together
Init == InitOver(NumSlots, AccessInputs)

Next ==
    \/ \E s \in DOMAIN req, token \in AccessInputs.tokens, body \in AccessInputs.bodies,
          net \in AccessInputs.nets :
           createAppointment(s, token, body, net, AccessInputs.cap)
    \/ \E s \in DOMAIN req : createAppointmentPreSave(s)
    \/ \E s \in DOMAIN req, net \in AccessInputs.notifiers :
           createAppointmentSave(s, net, AccessInputs.cap)
    \/ \E s \in DOMAIN req, token \in AccessInputs.tokens, value \in AccessInputs.queries :
           getAppointments(s, token, value)
    \/ \E s \in DOMAIN req, token \in AccessInputs.tokens, id \in AccessInputs.ids :
           getAppointmentById(s, token, id)
    \/ \E s \in DOMAIN req, token \in AccessInputs.tokens, id \in AccessInputs.ids,
          value \in AccessInputs.values :
           updateAppointment(s, token, id, value)
    \/ \E s \in DOMAIN req : updateAppointmentPreSave(s)
    \/ \E s \in DOMAIN req, net \in AccessInputs.notifiers : updateAppointmentSave(s, net)
    \/ \E s \in DOMAIN req, token \in AccessInputs.tokens, id \in AccessInputs.ids :
           cancelAppointment(s, token, id)
    \/ \E s \in DOMAIN req, net \in AccessInputs.notifiers : cancelAppointmentSave(s, net)
    \/ \E s \in DOMAIN req : Finish(s)

Spec == Init /\ [][Next]_vars

\* SpecSchedule: one doctor's calendar, requests in flight together
InitSchedule == InitOver(ScheduleSlots, ScheduleInputs)

NextSchedule ==
    \/ \E s \in DOMAIN req, token \in ScheduleInputs.tokens, body \in ScheduleInputs.bodies,
          net \in ScheduleInputs.nets :
           createAppointment(s, token, body, net, ScheduleInputs.cap)
    \/ \E s \in DOMAIN req : createAppointmentPreSave(s)
    \/ \E s \in DOMAIN req, net \in ScheduleInputs.notifiers :
           createAppointmentSave(s, net, ScheduleInputs.cap)
    \/ \E s \in DOMAIN req, token \in ScheduleInputs.tokens, value \in ScheduleInputs.queries :
           getAppointments(s, token, value)
    \/ \E s \in DOMAIN req, token \in ScheduleInputs.tokens, id \in ScheduleInputs.ids :
           getAppointmentById(s, token, id)
    \/ \E s \in DOMAIN req, token \in ScheduleInputs.tokens, id \in ScheduleInputs.ids,
          value \in ScheduleInputs.values :
           updateAppointment(s, token, id, value)
    \/ \E s \in DOMAIN req : updateAppointmentPreSave(s)
    \/ \E s \in DOMAIN req, net \in ScheduleInputs.notifiers : updateAppointmentSave(s, net)
    \/ \E s \in DOMAIN req, token \in ScheduleInputs.tokens, id \in ScheduleInputs.ids :
           cancelAppointment(s, token, id)
    \/ \E s \in DOMAIN req, net \in ScheduleInputs.notifiers : cancelAppointmentSave(s, net)
    \/ \E s \in DOMAIN req : Finish(s)

SpecSchedule == InitSchedule /\ [][NextSchedule]_vars

\* SpecSerial: one doctor's calendar, one request at a time
InitSerial == InitOver(SerialSlots, ScheduleInputs)

SpecSerial == InitSerial /\ [][NextSchedule]_vars

\* SpecServices: the collaborators in every mood, one request at a time
InitServices == InitOver(ServiceSlots, ServiceInputs)

NextServices ==
    \/ \E s \in DOMAIN req, token \in ServiceInputs.tokens, body \in ServiceInputs.bodies,
          net \in ServiceInputs.nets :
           createAppointment(s, token, body, net, ServiceInputs.cap)
    \/ \E s \in DOMAIN req : createAppointmentPreSave(s)
    \/ \E s \in DOMAIN req, net \in ServiceInputs.notifiers :
           createAppointmentSave(s, net, ServiceInputs.cap)
    \/ \E s \in DOMAIN req, token \in ServiceInputs.tokens, value \in ServiceInputs.queries :
           getAppointments(s, token, value)
    \/ \E s \in DOMAIN req, token \in ServiceInputs.tokens, id \in ServiceInputs.ids :
           getAppointmentById(s, token, id)
    \/ \E s \in DOMAIN req, token \in ServiceInputs.tokens, id \in ServiceInputs.ids,
          value \in ServiceInputs.values :
           updateAppointment(s, token, id, value)
    \/ \E s \in DOMAIN req : updateAppointmentPreSave(s)
    \/ \E s \in DOMAIN req, net \in ServiceInputs.notifiers : updateAppointmentSave(s, net)
    \/ \E s \in DOMAIN req, token \in ServiceInputs.tokens, id \in ServiceInputs.ids :
           cancelAppointment(s, token, id)
    \/ \E s \in DOMAIN req, net \in ServiceInputs.notifiers : cancelAppointmentSave(s, net)
    \/ \E s \in DOMAIN req : Finish(s)

SpecServices == InitServices /\ [][NextServices]_vars

\* SpecRecurrence: generateRecurringAppointments over a range of inputs
InitRecurrence == InitOver(SerialSlots, RecurrenceInputs)

NextRecurrence ==
    \/ \E s \in DOMAIN req, start \in RecurrenceInputs.starts,
          type \in RecurrenceInputs.types, interval \in RecurrenceInputs.intervals,
          span \in RecurrenceInputs.spans :
           generateRecurringAppointmentsCall(
               s, Users["a1"],
               CreateBody("p1", "d1", start, 30,
                          [type |-> type, interval |-> interval, endDate |-> start + span]))
    \/ \E s \in DOMAIN req : Finish(s)

SpecRecurrence == InitRecurrence /\ [][NextRecurrence]_vars

\* SpecLoop: the loop of generateRecurringAppointments step by step.  The loop
\* is synchronous code with no await: once entered, the engine runs each
\* iteration and the return without yielding, hence the weak fairness.
InitLoop == InitOver(SerialSlots, RecurrenceInputs)

NextLoop ==
    \/ \E s \in DOMAIN req, start \in RecurrenceInputs.starts,
          type \in RecurrenceInputs.types, interval \in RecurrenceInputs.intervals :
         \E span \in LoopSpans(type) :
           generateRecurringAppointmentsEnter(
               s, Users["a1"],
               CreateBody("p1", "d1", start, 30,
                          [type |-> type, interval |-> interval, endDate |-> start + span]))
    \/ \E s \in DOMAIN req : generateRecurringAppointmentsIteration(s)
    \/ \E s \in DOMAIN req : generateRecurringAppointmentsReturn(s)
    \/ \E s \in DOMAIN req : Finish(s)

SpecLoop ==
    /\ InitLoop /\ [][NextLoop]_vars
    /\ \A s \in 1..SerialSlots :
          /\ WF_vars(generateRecurringAppointmentsIteration(s))
          /\ WF_vars(generateRecurringAppointmentsReturn(s))

\* SpecClock: the calendars while the time passes, one request at a time
InitClock == InitOver(ClockSlots, ClockInputs)

NextClock ==
    \/ \E s \in DOMAIN req, token \in ClockInputs.tokens, body \in ClockInputs.bodies,
          net \in ClockInputs.nets :
           createAppointment(s, token, body, net, ClockInputs.cap)
    \/ \E s \in DOMAIN req : createAppointmentPreSave(s)
    \/ \E s \in DOMAIN req, net \in ClockInputs.notifiers :
           createAppointmentSave(s, net, ClockInputs.cap)
    \/ \E s \in DOMAIN req, token \in ClockInputs.tokens, value \in ClockInputs.queries :
           getAppointments(s, token, value)
    \/ \E s \in DOMAIN req, token \in ClockInputs.tokens, id \in ClockInputs.ids :
           getAppointmentById(s, token, id)
    \/ \E s \in DOMAIN req, token \in ClockInputs.tokens, id \in ClockInputs.ids,
          value \in ClockInputs.values :
           updateAppointment(s, token, id, value)
    \/ \E s \in DOMAIN req : updateAppointmentPreSave(s)
    \/ \E s \in DOMAIN req, net \in ClockInputs.notifiers : updateAppointmentSave(s, net)
    \/ \E s \in DOMAIN req, token \in ClockInputs.tokens, id \in ClockInputs.ids :
           cancelAppointment(s, token, id)
    \/ \E s \in DOMAIN req, net \in ClockInputs.notifiers : cancelAppointmentSave(s, net)
    \/ \E s \in DOMAIN req : Finish(s)
    \/ \E t \in ClockInputs.clock : Tick(t)

SpecClock == InitClock /\ [][NextClock]_vars

\* SpecConflict: the store holds one appointment of the doctor, made by an
\* earlier create (and completed or not), and a create for the doctor has
\* built its one instance and is about to save it
InitConflict ==
    /\ now = 0
    /\ validation \in ConflictInputs.validations
    /\ \E start \in ConflictInputs.starts, duration \in ConflictInputs.durations,
          status \in ConflictInputs.statuses :
           appointments =
               << [NewDocument(BaseAppointment(Users["a1"],
                                               CreateBody("p2", "d1", start, duration,
                                                          NoRecurrence)), 1)
                     EXCEPT !.status = status] >>
    /\ \E body \in ConflictInputs.proposed, net \in ConflictInputs.nets :
           req = << createAppointmentPrepare(Users["a1"], body, net) >>

NextConflict ==
    \/ \E s \in DOMAIN req : createAppointmentPreSave(s)
    \/ \E s \in DOMAIN req, net \in ConflictInputs.notifiers :
           createAppointmentSave(s, net, ConflictInputs.cap)
    \/ \E s \in DOMAIN req : Finish(s)

SpecConflict == InitConflict /\ [][NextConflict]_vars

----------------------------------------------------------------------------
\* Vocabulary of the properties

Slots == DOMAIN req

\* Non-cancelled and non-deleted
Live(a) == a.deleted = FALSE /\ a.status # "cancelled"

\* [start - 120 min, start + duration) of a and of b have no minute in common
EffectiveWindowsDisjoint(a, b) ==
    \/ a.date + a.duration <= b.date - BufferMinutes
    \/ b.date + b.duration <= a.date - BufferMinutes

\* [start, start + duration) of a and of b have a minute in common
Overlap(a, b) ==
    a.date < b.date + b.duration /\ b.date < a.date + a.duration

\* The number of instances a create request asks for
Instances(body) ==
    IF body.recurrence.type = "null" THEN 1
    ELSE Len(RecurringDates(body.date, body.recurrence))

\* The roles the route of an operation lets through
RouteRoles(op) ==
    IF op = "create" THEN CreateRoles
    ELSE IF op \in {"list", "get"} THEN ReadRoles
    ELSE WriteRoles

\* The request passed authenticate and, for an update, the payload's validation
Admitted(r) ==
    /\ r.user.role \in RouteRoles(r.op)
    /\ r.op = "update" => updateAppointmentSchema(r.body)

\* Slot s takes up a request in this step
TakesUp(s) == req[s].pc = "idle" /\ req'[s].pc # "idle"

\* The collaborator fails at every attempt of a call
EveryAttemptFails(net) == \A i \in DOMAIN net : net[i] \in {"down", "timeout"}

\* The user service knows the id, with that role
IsA(userId, role) == userId \in UserIds /\ Users[userId].role = role

\* The body names a patient and a doctor whose KYC is verified
GoodParties(body) ==
    /\ IsA(body.patientId, "patient")
    /\ IsA(body.doctorId, "doctor")
    /\ Users[body.doctorId].kycVerified

\* Slot s holds the instances generateRecurringAppointments returned
Generated(s) == req[s].pc = "done" /\ req[s].op = "generate"

\* The start dates of those instances, in order
StartsOf(s) == [k \in 1..Len(req[s].todo) |-> req[s].todo[k].date]

\* The live appointments of the doctor are one appointment at 10:00-10:30
OnlyTenToHalfPast(doctorId) ==
    LET live == {i \in Ids : appointments[i].doctorId = doctorId /\ Live(appointments[i])}
    IN  /\ Cardinality(live) = 1
        /\ \A i \in live : appointments[i].date = 600 /\ appointments[i].duration = 30

\* The create of slot s got as far as calling the collaborators
CalledOut(s) == req[s].op = "create" /\ req[s].net # NoNet

----------------------------------------------------------------------------
\* C1: after any sequence of create, update and cancel operations, every two
\* stored appointments of the same doctor that are both non-cancelled and
\* non-deleted have disjoint effective windows
\* [start - 120 minutes, start + duration).
C1_EffectiveWindowsDisjoint ==
    \A i, j \in Ids :
        ( /\ i # j
          /\ appointments[i].doctorId = appointments[j].doctorId
          /\ Live(appointments[i])
          /\ Live(appointments[j]) )
        => EffectiveWindowsDisjoint(appointments[i], appointments[j])

\* C2: of two concurrent creates or updates for the same doctor and the same
\* or an overlapping time window at most one succeeds.  Stated of the winner:
\* when a create, or an update that changes the date or duration, answers
\* with success, no other live appointment of the doctor overlaps what it
\* wrote.
C2_AtMostOneConcurrentWriteSucceeds ==
    \A s \in Slots :
        LET r == req[s]
        IN  ( /\ r.pc = "done"
              /\ r.statusCode \in {200, 201}
              /\ \/ r.op = "create"
                 \/ r.op = "update" /\ NeedsConflictCheck(FALSE, r.modified) )
            => \A k \in 1..Len(r.data), i \in Ids :
                   LET mine  == appointments[r.data[k].appointmentId]
                       other == appointments[i]
                   IN  ( /\ i # mine.appointmentId
                         /\ other.doctorId = mine.doctorId
                         /\ Live(mine)
                         /\ Live(other) )
                       => ~Overlap(mine, other)

\* C3: a recurring create of N instances is all-or-nothing: in every
\* reachable state, while the create runs and after it has failed, either all
\* N instances of the request have been stored or none has.
C3_RecurringCreateAllOrNothing ==
    \A s \in Slots :
        LET r == req[s]
        IN  (r.op = "create" /\ r.saved # <<>>) => Len(r.saved) = Instances(r.body)

\* C4: in every reachable state every stored appointment has deleted = true
\* if and only if its status is 'cancelled'.
C4_DeletedIffCancelled ==
    \A i \in Ids : appointments[i].deleted <=> appointments[i].status = "cancelled"

\* C5: once an appointment's status is 'cancelled' or 'completed', no update
\* or cancel changes it to another value.
C5_TerminalStatusIsFinal ==
    [][ \A i \in Ids :
            appointments[i].status \in {"cancelled", "completed"}
            => appointments'[i].status = appointments[i].status ]_vars

\* C6, as stated: after a cancel of X has succeeded, every later cancel, get
\* or update of X, by any actor, is answered 404 at once and leaves the
\* collection unchanged.
C6_LaterRequestsAreNotFound ==
    [][ \A s \in Slots :
            ( /\ TakesUp(s)
              /\ req'[s].op \in {"get", "update", "cancel"}
              /\ req'[s].late )
            => /\ req'[s].pc = "done"
               /\ req'[s].statusCode = 404
               /\ appointments' = appointments ]_vars

\* C6, amended: after a cancel of X has succeeded (it answered 200 and set
\* deleted), every later cancel, get or update of X that passes authenticate
\* and, for an update, the payload's validation is answered 404 at once, by
\* whichever role, the admin included; every later request on X, admitted or
\* not, ends at once and leaves the collection unchanged.
C6_LaterAdmittedRequestsAreNotFound ==
    [][ \A s \in Slots :
            ( /\ TakesUp(s)
              /\ req'[s].op \in {"get", "update", "cancel"}
              /\ req'[s].late )
            => /\ req'[s].pc = "done"
               /\ Admitted(req'[s]) => req'[s].statusCode = 404
               /\ appointments' = appointments ]_vars

\* C6: the admin's second cancel of an appointment is being answered 404
C6_SecondCancelSeen ==
    \E s \in Slots :
        /\ req[s].pc = "done" /\ req[s].op = "cancel" /\ req[s].late
        /\ req[s].user.role = "admin"
        /\ req[s].statusCode = 404

\* C7, as stated: a get, update or cancel by a patient of a stored appointment
\* of another patient is answered 404, with no data, and leaves the
\* collection unchanged.
C7_ForeignAppointmentIsNotFound ==
    [][ \A s \in Slots :
            ( /\ TakesUp(s)
              /\ req'[s].op \in {"get", "update", "cancel"}
              /\ req'[s].user.role = "patient"
              /\ req'[s].id \in Ids
              /\ appointments[req'[s].id].patientId # req'[s].user.id )
            => /\ req'[s].pc = "done"
               /\ req'[s].statusCode = 404
               /\ req'[s].data = <<>>
               /\ appointments' = appointments ]_vars

\* C7, amended: a get, update or cancel by a patient of a stored appointment
\* of another patient ends at once with no data and leaves the collection
\* unchanged; it is answered 404 unless it is an update whose payload fails
\* validation, which is answered 400 whether or not the appointment exists.
C7_ForeignAppointmentIsNotFoundOrInvalid ==
    [][ \A s \in Slots :
            ( /\ TakesUp(s)
              /\ req'[s].op \in {"get", "update", "cancel"}
              /\ req'[s].user.role = "patient"
              /\ req'[s].id \in Ids
              /\ appointments[req'[s].id].patientId # req'[s].user.id )
            => /\ req'[s].pc = "done"
               /\ req'[s].statusCode = IF Admitted(req'[s]) THEN 404 ELSE 400
               /\ req'[s].data = <<>>
               /\ appointments' = appointments ]_vars

\* C7: a patient's valid update of another patient's live appointment is
\* being answered 404
C7_ForeignUpdateSeen ==
    \E s \in Slots :
        /\ req[s].pc = "done" /\ req[s].op = "update"
        /\ req[s].user.role = "patient"
        /\ updateAppointmentSchema(req[s].body)
        /\ req[s].id \in Ids
        /\ appointments[req[s].id].patientId # req[s].user.id
        /\ appointments[req[s].id].deleted = FALSE
        /\ req[s].statusCode = 404

\* C8, as stated: a create by a patient whose payload names another patientId
\* is rejected with 403 before any call to the user or hospital service, and
\* nothing is persisted.
C8_CreateForAnotherIsDenied ==
    \A s \in Slots :
        LET r == req[s]
        IN  ( /\ r.op = "create"
              /\ r.user.role = "patient"
              /\ r.body # NoBody
              /\ r.body.patientId # r.user.id )
            => /\ r.pc = "done"
               /\ r.statusCode = 403
               /\ r.calls = 0
               /\ r.saved = <<>>

\* C8, amended: a create by a patient whose payload names another patientId
\* is rejected before any call to the user or hospital service and nothing is
\* persisted; the rejection is 403 when the payload passes validation and 400
\* when it does not.
C8_CreateForAnotherIsDeniedOrInvalid ==
    \A s \in Slots :
        LET r == req[s]
        IN  ( /\ r.op = "create"
              /\ r.user.role = "patient"
              /\ r.body # NoBody
              /\ r.body.patientId # r.user.id )
            => /\ r.pc = "done"
               /\ r.statusCode = IF createAppointmentSchema(r.body) THEN 403 ELSE 400
               /\ r.calls = 0
               /\ r.saved = <<>>

\* C8: a patient's valid create for another patient is being answered 403
C8_CreateForAnotherSeen ==
    \E s \in Slots :
        /\ req[s].pc = "done" /\ req[s].op = "create"
        /\ req[s].user.role = "patient"
        /\ req[s].body # NoBody
        /\ req[s].body.patientId # req[s].user.id
        /\ createAppointmentSchema(req[s].body)
        /\ req[s].statusCode = 403

\* C9: every create, update or cancel by a doctor is rejected with status 403
\* and has stored nothing.
C9_DoctorWritesAreDenied ==
    \A s \in Slots :
        LET r == req[s]
        IN  (r.op \in {"create", "update", "cancel"} /\ r.user.role = "doctor")
            => /\ r.pc = "done"
               /\ r.statusCode = 403
               /\ r.saved = <<>>

\* C10: every record a list or get returns to a patient has the patient's id
\* as patientId and every record returned to a doctor has the doctor's id as
\* doctorId, whatever patientId or doctorId filter the request carries: a list
\* by a patient or doctor returns what it returns without those filters, and
\* a list by the admin returns what the filters select.
C10_ReadsAreScopedToTheActor ==
    \A s \in Slots :
        LET r == req[s]
        IN  (r.pc = "done" /\ r.op \in {"list", "get"} /\ r.statusCode = 200)
            => /\ \A k \in 1..Len(r.data) :
                      /\ r.user.role = "patient" => r.data[k].patientId = r.user.id
                      /\ r.user.role = "doctor" => r.data[k].doctorId = r.user.id
               /\ (r.op = "list" /\ r.user.role # "admin")
                      => r.data = Find([ appointmentId |-> 0,
                                         patientId |-> IF r.user.role = "patient"
                                                       THEN r.user.id ELSE Unset,
                                         doctorId  |-> IF r.user.role = "doctor"
                                                       THEN r.user.id ELSE Unset,
                                         status    |-> r.body.status ])
               /\ (r.op = "list" /\ r.user.role = "admin")
                      => r.data = Find([ appointmentId |-> 0,
                                         patientId |-> r.body.patientId,
                                         doctorId  |-> r.body.doctorId,
                                         status    |-> r.body.status ])

\* C10: a patient's list that asks for another patient's records, while that
\* patient has a live record, is being answered with the patient's own
C10_FilteredListSeen ==
    \E s \in Slots :
        /\ req[s].pc = "done" /\ req[s].op = "list" /\ req[s].statusCode = 200
        /\ req[s].user.role = "patient"
        /\ req[s].body.patientId \notin {Unset, req[s].user.id}
        /\ req[s].data # <<>>
        /\ \E i \in Ids : /\ appointments[i].patientId = req[s].body.patientId
                          /\ appointments[i].deleted = FALSE

\* C11: every create, list, get, update or cancel by an authenticated actor
\* whose role is none of patient, doctor and admin ('system' when the token
\* carries no role) is rejected with the authorization failure, status 403,
\* returns no record and has stored nothing.
C11_UnknownRoleIsDenied ==
    \A s \in Slots :
        LET r == req[s]
        IN  (r.op # "none" /\ r.user.role \notin {"patient", "doctor", "admin", "none"})
            => /\ r.pc = "done"
               /\ r.statusCode = 403
               /\ r.data = <<>>
               /\ r.saved = <<>>

\* C12: when the user service fails with a 503 or a timeout at every attempt,
\* validateUser has made exactly 3 attempts with 2 delays between them and
\* then fails with a 5xx error whose details carry the user id and the cause
\* of the last attempt; validateHospital does the same with the hospital id
\* when the hospital service fails at every attempt.  The create that made the
\* call is answered with that error and has stored nothing.
C12_ThreeAttemptsThenUnavailable ==
    \A s \in Slots :
        LET r == req[s]
            unavailable(last, id) ==
                /\ r.pc = "done"
                /\ r.statusCode = IF last = "down" THEN 503 ELSE 500
                /\ r.details = [id |-> id,
                                error |-> IF last = "down"
                                          THEN "Request failed with status code 503"
                                          ELSE "timeout of 5000ms exceeded"]
                /\ r.saved = <<>> /\ r.data = <<>>
        IN  CalledOut(s) =>
              /\ EveryAttemptFails(r.net.user) =>
                    /\ r.calls = 3 /\ r.delays = 2
                    /\ unavailable(r.net.user[3], r.body.patientId)
              /\ ( /\ r.net.user = AllUp
                   /\ GoodParties(r.body)
                   /\ EveryAttemptFails(r.net.hospital) ) =>
                    /\ r.calls = 1 + 1 + 3 /\ r.delays = 2
                    /\ unavailable(r.net.hospital[3], r.body.hospitalId)

\* C12: a create whose calls to the user service all timed out is being
\* answered, while the store holds an appointment
C12_UserServiceTimedOutSeen ==
    \E s \in Slots :
        /\ CalledOut(s) /\ req[s].pc = "done"
        /\ req[s].net.user = AllTimeout
        /\ req[s].calls = 3
        /\ req[s].statusCode = 500
        /\ appointments # <<>>

\* C13: when the user service answers and the user is not found, or has
\* another role than the one asked for, validateUser reports the failure after
\* exactly one attempt: the create has made one call for a bad patient, two
\* for a good patient and a bad doctor, and has waited for no delay.
C13_PermanentFailureIsNotRetried ==
    \A s \in Slots :
        LET r == req[s]
        IN  (CalledOut(s) /\ r.net.user = AllUp) =>
              /\ ~IsA(r.body.patientId, "patient") =>
                    r.pc = "done" /\ r.calls = 1 /\ r.delays = 0
              /\ (IsA(r.body.patientId, "patient") /\ ~IsA(r.body.doctorId, "doctor")) =>
                    r.pc = "done" /\ r.calls = 2 /\ r.delays = 0

\* C14: no stored appointment names a doctor whose KYC is not verified; a
\* create that names one is answered 403, and a create that names a doctor the
\* user service does not know is answered with another status.
C14_UnverifiedDoctorIsForbidden ==
    /\ \A i \in Ids : /\ IsA(appointments[i].doctorId, "doctor")
                      /\ Users[appointments[i].doctorId].kycVerified
    /\ \A s \in Slots :
          LET r == req[s]
          IN  ( /\ CalledOut(s) /\ r.net.user = AllUp
                /\ IsA(r.body.patientId, "patient") ) =>
                 /\ (IsA(r.body.doctorId, "doctor") /\ ~Users[r.body.doctorId].kycVerified)
                       => r.pc = "done" /\ r.statusCode = 403 /\ r.saved = <<>>
                 /\ r.body.doctorId \notin UserIds
                       => r.pc = "done" /\ r.statusCode # 403 /\ r.saved = <<>>

C16_InstancesStepUpToEndDate ==
    \A s \in Slots :
        Generated(s) =>
            LET rec   == req[s].body.recurrence
                start == req[s].body.date
                d     == StartsOf(s)
                n     == Len(d)
                step(t) ==
                    IF rec.type = "daily" THEN t + Days(rec.interval)
                    ELSE IF rec.type = "weekly" THEN t + Days(7 * rec.interval)
                    ELSE setMonth(t, getMonth(t) + rec.interval)
            IN  /\ \A k \in 1..(n - 1) : d[k] < d[k + 1]
                /\ \A k \in 1..n : d[k] <= rec.endDate
                /\ \A k \in 1..(n - 1) : d[k + 1] = step(d[k])
                /\ n = 0 <=> start > rec.endDate
                /\ n > 0 => d[1] = start /\ step(d[n]) > rec.endDate

\* C16: a monthly series from the 31st of January whose last instance starts
\* exactly at endDate has been generated
C16_EndDateInstanceSeen ==
    \E s \in Slots :
        /\ Generated(s)
        /\ req[s].body.recurrence.type = "monthly"
        /\ getDate(req[s].body.date) = 31
        /\ Len(req[s].todo) >= 2
        /\ req[s].todo[Len(req[s].todo)].date = req[s].body.recurrence.endDate

C20_BufferBeforeTheStart ==
    [][ \A s \in Slots :
          LET r    == req[s]
              appt == Head(r.todo)
          IN  /\ ( /\ r.op = "create" /\ r.pc = "presave" /\ req'[s].pc # "presave"
                   /\ appt.duration = 30
                   /\ OnlyTenToHalfPast(appt.doctorId) ) =>
                     /\ appt.date = 660 =>
                           /\ req'[s].pc = "done" /\ req'[s].statusCode = 409
                           /\ appointments' = appointments
                     /\ appt.date = 780 => req'[s].pc = "write"
              /\ ( /\ r.op = "create" /\ r.pc = "write" /\ req'[s].pc = "done" ) =>
                     /\ req'[s].statusCode = 201
                     /\ appointments' = Append(appointments, req'[s].data[Len(req'[s].data)])
      ]_vars

\* C20: a create at 13:00 for a doctor whose only other live appointment is the
\* one at 10:00 is being answered 201
C20_OneOClockAcceptedSeen ==
    \E s \in Slots :
        /\ req[s].pc = "done" /\ req[s].op = "create" /\ req[s].statusCode = 201
        /\ req[s].body.date = 780
        /\ Len(appointments) = 2
        /\ \E i, j \in Ids :
              /\ appointments[i].doctorId = appointments[j].doctorId
              /\ Live(appointments[i]) /\ Live(appointments[j])
              /\ appointments[i].date = 600 /\ appointments[i].duration = 30
              /\ appointments[j].date = 780 /\ appointments[j].duration = 30

\* C21: for a proposed window [ps, pe) and an existing non-cancelled
\* appointment [es, ee) of the same doctor, the conflict check of the save
\* reports a conflict exactly when es lies within the 120 minutes before pe
\* or the two windows overlap (es < pe and ps < ee).
C21_ConflictIffNearEndOrOverlap ==
    \A s \in Slots :
        LET r  == req[s]
            ps == r.body.date
            pe == r.body.date + r.body.duration
            es == appointments[1].date
            ee == appointments[1].date + appointments[1].duration
            checked  == r.pc = "write" \/ (r.pc = "done" /\ r.statusCode = 409)
            reported == r.pc = "done"
        IN  ( /\ r.op = "create" /\ checked /\ Len(appointments) = 1
              /\ appointments[1].doctorId = r.body.doctorId
              /\ Live(appointments[1]) ) =>
                (reported <=> \/ (pe - 120 <= es /\ es <= pe)
                              \/ (es < pe /\ ps < ee))

\* C22: an update whose patch holds only notes never runs the conflict check,
\* and succeeds whenever the record exists, is not cancelled and is in the
\* actor's scope.
C22_NotesOnlyUpdateAlwaysSucceeds ==
    \A s \in Slots :
        LET r == req[s]
        IN  ( /\ r.op = "update" /\ r.user # NoUser
              /\ r.body # NoBody /\ DOMAIN r.body = {"notes"}
              /\ FindOne(writeQuery(r.user, r.id)) # NoDoc ) =>
                /\ r.pc # "presave"
                /\ r.pc = "done" => r.statusCode = 200

\* C23: every stored appointment has consent.grantedAt set exactly when
\* consent.given was true at the last create or update that set the consent:
\* the stored given is that last value, so grantedAt is set iff given is true.
C23_GrantedAtIffConsentGiven ==
    \A i \in Ids :
        appointments[i].consent.grantedAt # NoDate <=> appointments[i].consent.given

\* C24: no operation physically removes a record: every step keeps, for each
\* record of the store, a record with the same appointmentId, so a persisted
\* record is in the store in every later state.
C24_NoRecordIsEverRemoved ==
    [][ \A i \in Ids :
           \E j \in 1..Len(appointments') :
              appointments'[j].appointmentId = appointments[i].appointmentId ]_vars

\* a cancel has been answered 200 and its record is still stored, marked
\* deleted and cancelled
C24_CancelledRecordStillStored ==
    \E s \in Slots :
        /\ req[s].pc = "done" /\ req[s].op = "cancel" /\ req[s].statusCode = 200
        /\ req[s].id \in Ids
        /\ appointments[req[s].id].appointmentId = req[s].id
        /\ appointments[req[s].id].deleted
        /\ appointments[req[s].id].status = "cancelled"

\* C25: every stored appointment keeps its appointmentId through every step,
\* updates and cancels included, and no two stored appointments have the same
\* appointmentId.
C25_AppointmentIdIsKeptAndUnique ==
    [][ /\ \A i \in Ids : appointments'[i].appointmentId = appointments[i].appointmentId
        /\ \A i, j \in 1..Len(appointments') :
              i # j => appointments'[i].appointmentId # appointments'[j].appointmentId ]_vars

\* two appointments are stored, and an update that changed the one it names
\* has been answered 200
C25_UpdateAmongTwoSeen ==
    \E s \in Slots :
        /\ req[s].pc = "done" /\ req[s].op = "update" /\ req[s].statusCode = 200
        /\ req[s].modified \ {"updatedAt"} # {}
        /\ Len(appointments) = 2
        /\ appointments[req[s].id].appointmentId = req[s].id

\* a request to one of the five endpoints arrives with this token
RequestedWith(s, token) ==
    \/ \E body \in ClockInputs.bodies, net \in ClockInputs.nets :
          createAppointment(s, token, body, net, ClockInputs.cap)
    \/ \E value \in ClockInputs.queries : getAppointments(s, token, value)
    \/ \E id \in ClockInputs.ids : getAppointmentById(s, token, id)
    \/ \E id \in ClockInputs.ids, value \in ClockInputs.values :
          updateAppointment(s, token, id, value)
    \/ \E id \in ClockInputs.ids : cancelAppointment(s, token, id)

\* C26: a request to any endpoint with no Bearer token, or with a token whose
\* key is not the service key, never reaches a controller and leaves the store
\* unchanged; it is rejected with 401 when the token is missing and with 403
\* when the service key is invalid.
C26_UnauthenticatedIsRejected ==
    [][ \A s \in Slots, token \in ClockInputs.tokens :
           (token.kind \in {"missing", "badkey"} /\ RequestedWith(s, token)) =>
              /\ appointments' = appointments
              /\ req'[s].pc = "done" /\ req'[s].user = NoUser /\ req'[s].doc = NoDoc
              /\ req'[s].statusCode = IF token.kind = "missing" THEN 401 ELSE 403 ]_vars

\* C27: for every instance persisted by a successful create, when the
\* validated patient has a phoneNumber an 'sms' notification carrying that
\* phone number is dispatched in addition to the 'email'; when the patient has
\* none, only the email is.
C27_SmsCarriesThePhoneNumber ==
    \A s \in Slots :
        LET r       == req[s]
            patient == Users[r.saved[1].patientId]
            posted  == {r.posted[k] : k \in 1..Len(r.posted)}
        IN  ( /\ r.pc = "done" /\ r.op = "create" /\ r.statusCode = 201
              /\ \A k \in 1..3 : r.notify.notification[k] \notin Failing ) =>
                /\ \E n \in posted : n.type = "email" /\ n.recipient = EmailOf(patient)
                /\ IF patient.phoneNumber
                   THEN /\ Len(r.posted) = 2 * Len(r.saved)
                        /\ \E n \in posted :
                              /\ n.type = "sms"
                              /\ "phoneNumber" \in DOMAIN n
                              /\ n.phoneNumber = PhoneOf(patient)
                   ELSE /\ Len(r.posted) = Len(r.saved)
                        /\ \A n \in posted : n.type = "email"

\* C28: every error raised by create, list, get, update or cancel reaches the
\* caller with that error's own status code (400, 403, 404, 409, 5xx) and its
\* message; when NODE_ENV is 'production' the body has no stack trace.
C28_ErrorsKeepTheirStatusCode ==
    \A s \in Slots, env \in Environments :
        LET r        == req[s]
            response == errorHandler([statusCode |-> r.statusCode], env)
        IN  (r.pc = "done" /\ r.op # "none" /\ r.statusCode >= 400) =>
                /\ response.statusCode = r.statusCode
                /\ response.ownMessage
                /\ env = "production" => ~response.stack

\* C29: for a monthly recurrence that starts on day d of the month with
\* interval k, every generated instance whose target month (the month of the
\* start plus k months per step) has a day d falls on day d, those that follow
\* a month too short to hold day d included.
C29_MonthlyInstancesFallOnTheStartDay ==
    \A s \in Slots :
        (Generated(s) /\ req[s].body.recurrence.type = "monthly") =>
            LET rec   == req[s].body.recurrence
                start == req[s].body.date
                dates == StartsOf(s)
                d     == getDate(start)
            IN  \A k \in 1..Len(dates) :
                   LET m == getMonth(start) + (k - 1) * rec.interval
                       y == getFullYear(start) + (m \div 12)
                   IN  DaysInMonth(y, m % 12) >= d => getDate(dates[k]) = d

\* C30: an update that changes date or duration and is rejected with a
\* scheduling conflict leaves the stored appointment unchanged in every field:
\* no step of such an update, from its arrival to the 409, writes the store.
C30_RejectedUpdateCommitsNothing ==
    [][ \A s \in Slots :
           ( /\ req'[s] # req[s]
             /\ req'[s].op = "update"
             /\ \/ req'[s].pc = "presave"
                \/ req'[s].pc = "done" /\ req'[s].statusCode = 409 ) =>
                appointments' = appointments ]_vars

\* an update to another date has been rejected with 409, and the stored
\* appointment still has its date
C30_RejectedDateChangeSeen ==
    \E s \in Slots :
        /\ req[s].pc = "done" /\ req[s].op = "update" /\ req[s].statusCode = 409
        /\ "date" \in DOMAIN req[s].body
        /\ req[s].id \in Ids
        /\ appointments[req[s].id].date # req[s].body.date

\* C31: for every stored appointment, createdAt and createdBy never change
\* after creation, updatedAt never decreases and is refreshed by every
\* successful update or cancel, and updatedBy is the id of the actor of the
\* last successful create, update or cancel of it.
C31_AuditFieldsFollowTheLastActor ==
    [][ /\ \A i \in Ids :
              /\ appointments'[i].createdAt = appointments[i].createdAt
              /\ appointments'[i].createdBy = appointments[i].createdBy
              /\ appointments'[i].updatedAt >= appointments[i].updatedAt
        /\ \A s \in Slots :
              /\ ( /\ req[s].op \in {"update", "cancel"}
                   /\ req[s].pc = "write"
                   /\ req'[s].pc = "done" /\ req'[s].statusCode = 200 ) =>
                      /\ appointments'[req[s].id].updatedBy = req[s].user.id
                      /\ appointments'[req[s].id].updatedAt = now
              /\ ( /\ req[s].op = "create" /\ req[s].pc = "write"
                   /\ req'[s] # req[s]
                   /\ Len(appointments') = Len(appointments) + 1 ) =>
                      LET a == appointments'[Len(appointments')]
                      IN  /\ a.createdBy = req[s].user.id /\ a.updatedBy = req[s].user.id
                          /\ a.createdAt = now /\ a.updatedAt = now ]_vars

\* C32: a cancelled appointment never causes a conflict: whenever the save of
\* a create or of an update is rejected with 409, another appointment of the
\* doctor that is neither cancelled nor deleted starts in the window of the
\* rejected one or in the 120 minutes before it.
C32_CancelledNeverConflicts ==
    [][ \A s \in Slots :
           ( /\ req[s].pc = "presave"
             /\ req'[s].pc = "done" /\ req'[s].statusCode = 409 ) =>
                LET doc == IF req[s].op = "create" THEN Head(req[s].todo) ELSE req[s].doc
                IN  \E i \in Ids :
                       /\ appointments[i].doctorId = doc.doctorId
                       /\ appointments[i].appointmentId # doc.appointmentId
                       /\ ~appointments[i].deleted
                       /\ appointments[i].status # "cancelled"
                       /\ appointments[i].date >= doc.date - 120
                       /\ appointments[i].date <= doc.date + doc.duration ]_vars

\* a create has been accepted for a doctor at the very start of an appointment
\* of that doctor that was cancelled before
C32_CreateOverCancelledSeen ==
    \E s \in Slots :
        /\ req[s].pc = "done" /\ req[s].op = "create" /\ req[s].statusCode = 201
        /\ \E i, j \in Ids :
              /\ i < j
              /\ appointments[i].doctorId = appointments[j].doctorId
              /\ appointments[i].date = appointments[j].date
              /\ appointments[i].deleted /\ appointments[i].status = "cancelled"
              /\ Live(appointments[j])
              /\ req[s].saved = <<appointments[j]>>

\* C33: in every create the steps run in the order payload validation, access
\* check, patient validation, doctor validation, facility validation,
\* persistence: no collaborator is called when the payload validation or the
\* access check fails, a later validation is not asked when an earlier one has
\* failed, and no appointment is persisted unless the patient, doctor and
\* facility validations of that same request have all succeeded.
C33_CreateStepsInOrder ==
    \A s \in Slots :
        LET r        == req[s]
            patient  == validateUser(r.body.patientId, "patient", r.net.user)
            doctor   == validateUser(r.body.doctorId, "doctor", r.net.user)
            hospital == validateHospital(r.body.hospitalId, r.net.hospital)
        IN  (r.op = "create" /\ r.body # NoBody) =>
               /\ ( \/ ~createAppointmentSchema(r.body)
                    \/ createForAnotherPatient(r.user, r.body.patientId) ) =>
                      /\ r.pc = "done" /\ r.statusCode \in {400, 403}
                      /\ r.calls = 0 /\ r.net = NoNet /\ r.saved = <<>>
               /\ r.net # NoNet =>
                      /\ ~patient.ok => r.calls = patient.attempts
                      /\ (patient.ok /\ ~doctor.ok) =>
                            r.calls = patient.attempts + doctor.attempts
                      /\ (r.pc \in {"presave", "write"} \/ r.saved # <<>>) =>
                            /\ patient.ok /\ doctor.ok /\ doctor.user.kycVerified
                            /\ hospital.ok
                            /\ r.calls = patient.attempts + doctor.attempts
                                            + hospital.attempts

\* a create has been persisted after the hospital service answered at its
\* second attempt: one call for the patient, one for the doctor, two for the
\* facility
C33_PersistedAfterAllValidationsSeen ==
    \E s \in Slots :
        /\ req[s].pc = "done" /\ req[s].op = "create" /\ req[s].statusCode = 201
        /\ req[s].saved # <<>>
        /\ req[s].net.hospital = <<"timeout", "up", "up">>
        /\ req[s].calls = 4

\* C34: a notification for an appointment instance is dispatched only after
\* all instances of its create request have been committed, and a create
\* request that ends in an error dispatches no notification at all: while a
\* create has instances left to save, or once it has ended in an error, it has
\* sent nothing.
C34_NotificationsAfterTheWholeCommit ==
    \A s \in Slots :
        LET r == req[s]
        IN  (r.op = "create" /\ r.sent > 0) => (r.pc = "done" /\ r.statusCode = 201)

\* C35: no list or get response ever contains an appointment with deleted
\* true, for any role and any filter, status = cancelled included; the total
\* a list reports is the number of stored records that are not deleted, are in
\* the actor's scope and match the filter.
C35_ReadsNeverShowDeleted ==
    \A s \in Slots :
        LET r == req[s]
        IN  ( /\ r.pc = "done" /\ r.op \in {"list", "get"} /\ r.statusCode = 200 ) =>
               /\ \A k \in 1..Len(r.data) : r.data[k].deleted = FALSE
               /\ r.op = "list" =>
                     r.total = Cardinality(
                        {i \in Ids :
                           /\ ~appointments[i].deleted
                           /\ r.user.role = "patient" => appointments[i].patientId = r.user.id
                           /\ r.user.role = "doctor" => appointments[i].doctorId = r.user.id
                           /\ (r.user.role = "admin" /\ r.body.patientId # Unset) =>
                                 appointments[i].patientId = r.body.patientId
                           /\ (r.user.role = "admin" /\ r.body.doctorId # Unset) =>
                                 appointments[i].doctorId = r.body.doctorId
                           /\ r.body.status # Unset =>
                                 appointments[i].status = r.body.status})

\* the admin has listed with status = cancelled while a cancelled appointment
\* is stored: the list is empty and its total is 0
C35_CancelledFilterSeen ==
    \E s \in Slots :
        /\ req[s].pc = "done" /\ req[s].op = "list" /\ req[s].statusCode = 200
        /\ req[s].user.role = "admin"
        /\ req[s].body.status = "cancelled"
        /\ \E i \in Ids : appointments[i].deleted /\ appointments[i].status = "cancelled"
        /\ req[s].data = <<>> /\ req[s].total = 0

\* C36: whether two appointment requests for the same doctor are both
\* accepted does not depend on the order in which they are created: with A
\* stored, the create of B is accepted (both are stored) exactly when, with B
\* stored, the save of A would find no conflict.
C36_AcceptanceIsOrderIndependent ==
    \A s \in Slots :
        LET r == req[s]
            A == appointments[1]
            B == NewDocument(BaseAppointment(r.user, r.body), 2)
        IN  ( /\ r.pc = "done" /\ r.op = "create"
              /\ A.doctorId = B.doctorId /\ Live(A) ) =>
                (r.statusCode = 201 /\ Len(appointments) = 2)
                    <=> ~ConflictQuery(B, A)

\* C37: of the cancel requests for one appointment at most one reports
\* success and at most one dispatches the cancellation notifications: a
\* cancel whose save comes when the appointment is already cancelled neither
\* answers 200 nor sends a notification.
C37_OneCancelSucceeds ==
    [][\A s \in Slots :
          ( /\ req[s].op = "cancel" /\ req[s].pc = "write"
            /\ req'[s].pc = "done"
            /\ IsCancelled(req[s].id) ) =>
                /\ req'[s].statusCode # 200
                /\ req'[s].sent = 0]_vars

\* C38: a cancelled appointment stays cancelled and deleted whatever update
\* runs beside the cancel, and an update whose save comes after the cancel's
\* save does not answer 200 and changes no field of the cancelled record.
C38_UpdateAfterCancelChangesNothing ==
    [][/\ \A i \in Ids :
              (appointments[i].deleted /\ appointments[i].status = "cancelled") =>
                  (appointments'[i].deleted /\ appointments'[i].status = "cancelled")
       /\ \A s \in Slots :
              ( /\ req[s].op = "update" /\ req[s].pc = "write"
                /\ req'[s].pc = "done"
                /\ IsCancelled(req[s].id) ) =>
                    /\ req'[s].statusCode # 200
                    /\ appointments' = appointments]_vars

\* C39: generateRecurringAppointments terminates for every recurrence that
\* createAppointmentSchema accepts (daily, weekly or monthly, interval >= 1,
\* endDate after the base date): a loop that has been entered always comes
\* to its return, with the finite sequence of instances the function yields.
C39_LoopTerminates ==
    \A s \in 1..SerialSlots :
        (req[s].pc = "loop") ~>
            ( /\ req[s].pc = "done" /\ req[s].op = "generate"
              /\ req[s].todo = generateRecurringAppointments(
                                   BaseAppointment(req[s].user, req[s].body),
                                   req[s].body.recurrence) )

\* A monthly series has come to its return after several iterations, the last
\* of which stepped currentDate past endDate
C39_LoopReturnedSeen ==
    \E s \in Slots :
        /\ req[s].pc = "done" /\ req[s].op = "generate"
        /\ req[s].body.recurrence.type = "monthly"
        /\ Len(req[s].todo) >= 3
        /\ req[s].currentDate > req[s].body.recurrence.endDate

====
